---- MODULE Spec2Model ----
(***************************************************************************)
(* PyGit core: the object store (pygit/core/objects.py, repository.py) and *)
(* the staging area (pygit/core/index.py), modelled at byte level.         *)
(*                                                                         *)
(* A byte string (Python bytes) and a text string (Python str) are both    *)
(* sequences of cells.  A cell is                                          *)
(*   <<n>>        a plain byte (0..255) or a plain code point,             *)
(*   <<i, p>>     byte i (1..20) of the SHA-1 digest of the bytes p,       *)
(*   <<j, p, 0>>  hex digit j (1..40) of that digest.                      *)
(* SHA-1 is idealised as collision free: the first cell of a digest        *)
(* carries the hashed bytes p, the other cells carry <<>>.  The digests of *)
(* the blobs the working tree holds are the real ones (Sha1Known), so that *)
(* every byte of the index file is a plain byte.                           *)
(* A number that may pass 2^31 is a pair <<hi, lo>> for hi * 65536 + lo.   *)
(***************************************************************************)
EXTENDS Integers, Sequences, FiniteSets, TLC

VARIABLES
    objects,    \* .git/objects: object path <<dir, file>> -> file content
    writes,     \* the object paths physically written, in write order
    rec,        \* the GitObject or IndexEntry under test
    req,        \* the arguments of rec, or of the last call
    ret,        \* what the last call returned
    got,        \* what the last get_object or serialize call returned
    op,         \* the last operation and whether it wrote an object file
    worktree,   \* the files of the working tree: path -> content, exec, stat
    cwd,        \* the working directory of the process: "repo" or "other"
    indexEntries, \* Index.entries, in insertion order
    indexFile,  \* .git/index: None or <<bytes>>
    backupFile  \* .git/index.backup: None or <<bytes>>

----------------------------------------------------------------------------
(* Bytes, text and numbers                                                 *)

B(n) == <<n>>

Text(codes) == [i \in 1..Len(codes) |-> B(codes[i])]

IsPlain(c) == Len(c) = 1

IsRawCell(c) == Len(c) = 2

IsHexCell(c) == Len(c) = 3

NUL == B(0)

SP == B(32)

LF == B(10)

None == <<>>

Min(a, b) == IF a < b THEN a ELSE b

Max(a, b) == IF a > b THEN a ELSE b

\* s[a:b] of Python, 0-based and half-open, for 0 <= a
Slice(s, a, b) == SubSeq(s, a + 1, Min(b, Len(s)))

\* s[a:]
From(s, a) == SubSeq(s, a + 1, Len(s))

\* s.find(c, start): the 0-based position of the first cell c at or after
\* start, or -1
FindFrom(s, c, start) ==
    LET hits == {i \in start..(Len(s) - 1) : s[i + 1] = c}
    IN  IF hits = {} THEN -1 ELSE CHOOSE i \in hits : \A j \in hits : i <= j

RECURSIVE Flat(_)
\* b"".join(parts)
Flat(parts) ==
    IF parts = <<>> THEN <<>> ELSE Head(parts) \o Flat(Tail(parts))

RECURSIVE JoinWith(_, _)
\* sep.join(parts)
JoinWith(sep, parts) ==
    IF parts = <<>> THEN <<>>
    ELSE IF Len(parts) = 1 THEN parts[1]
    ELSE parts[1] \o sep \o JoinWith(sep, Tail(parts))

RECURSIVE SplitOn(_, _)
\* the piece of s before position k and the pieces behind it
SplitAt(s, c, k) ==
    IF k = -1 THEN <<s>> ELSE <<Slice(s, 0, k)>> \o SplitOn(From(s, k + 1), c)

\* s.split(c): the pieces of s between the cells c
SplitOn(s, c) == SplitAt(s, c, FindFrom(s, c, 0))

StartsWith(s, prefix) ==
    /\ Len(s) >= Len(prefix)
    /\ SubSeq(s, 1, Len(prefix)) = prefix

RECURSIVE Dec(_)
\* str(n) for n >= 0
Dec(n) ==
    IF n < 10 THEN <<B(48 + n)>> ELSE Dec(n \div 10) \o <<B(48 + (n % 10))>>

\* str(n), as an f-string formats an int
PyStr(n) == IF n < 0 THEN <<B(45)>> \o Dec(0 - n) ELSE Dec(n)

IsDigit(c) == IsPlain(c) /\ c[1] >= 48 /\ c[1] <= 57

RECURSIVE DigitsValue(_)
DigitsValue(s) ==
    IF s = <<>> THEN 0
    ELSE 10 * DigitsValue(SubSeq(s, 1, Len(s) - 1)) + (s[Len(s)][1] - 48)

\* int(s): [ok, n]; ok is FALSE where Python raises ValueError
ParseInt(s) ==
    LET signed == s # <<>> /\ s[1] \in {B(45), B(43)}
        digits == IF signed THEN Tail(s) ELSE s
    IN  IF digits = <<>> \/ \E i \in DOMAIN digits : ~IsDigit(digits[i])
        THEN [ok |-> FALSE, n |-> 0]
        ELSE [ok |-> TRUE,
              n  |-> IF signed /\ s[1] = B(45) THEN 0 - DigitsValue(digits)
                     ELSE DigitsValue(digits)]

RECURSIVE ZeroPad(_, _)
ZeroPad(s, width) == IF Len(s) >= width THEN s ELSE ZeroPad(<<B(48)>> \o s, width)

\* a cell that is one ASCII character and one byte: a plain code below 128,
\* or a hex digit
IsAscii(c) == IsHexCell(c) \/ (IsPlain(c) /\ c[1] < 128)

\* the 1-based position of the first cell that is not ASCII, or 0
FirstWide(s) ==
    LET wide == {i \in 1..Len(s) : ~IsAscii(s[i])}
    IN  IF wide = {} THEN 0 ELSE CHOOSE i \in wide : \A j \in wide : i <= j

RECURSIVE Encode(_)
\* str.encode(): UTF-8 of the code points below 0x800
Encode(s) ==
    LET k == FirstWide(s)
    IN  IF k = 0 THEN s
        ELSE SubSeq(s, 1, k - 1)
             \o <<B(192 + (s[k][1] \div 64)), B(128 + (s[k][1] % 64))>>
             \o Encode(From(s, k))

RECURSIVE Decode(_)
\* bytes.decode(): [ok, s]; ok is FALSE where Python raises UnicodeDecodeError.
\* A digest byte has no known value: it is taken as undecodable.
Decode(b) ==
    LET k == FirstWide(b)
    IN  IF k = 0 THEN [ok |-> TRUE, s |-> b]
        ELSE IF /\ IsPlain(b[k]) /\ b[k][1] >= 194 /\ b[k][1] <= 223
                /\ Len(b) > k
                /\ IsPlain(b[k + 1]) /\ b[k + 1][1] >= 128 /\ b[k + 1][1] <= 191
        THEN LET r == Decode(From(b, k + 1))
             IN  [ok |-> r.ok,
                  s  |-> SubSeq(b, 1, k - 1)
                         \o <<B((b[k][1] - 192) * 64 + (b[k + 1][1] - 128))>>
                         \o r.s]
        ELSE [ok |-> FALSE, s |-> <<>>]

IsSpace(c) == IsPlain(c) /\ c[1] \in {9, 10, 11, 12, 13, 32}

RECURSIVE LStrip(_)
LStrip(s) == IF s # <<>> /\ IsSpace(Head(s)) THEN LStrip(Tail(s)) ELSE s

RECURSIVE RStrip(_)
RStrip(s) ==
    IF s # <<>> /\ IsSpace(s[Len(s)]) THEN RStrip(SubSeq(s, 1, Len(s) - 1)) ELSE s

\* s.strip()
Strip(s) == RStrip(LStrip(s))

----------------------------------------------------------------------------
(* SHA-1, hex and DEFLATE                                                  *)

ShaRawLen == 20

ShaHexLen == 40

\* the SHA-1 digests of "blob 0\0", "blob 1\0x", "blob 2\0yy" and "blob 1\0y"
Sha1Known ==
    (Text(<<98, 108, 111, 98, 32, 48, 0>>) :>
        Text(<<230, 157, 226, 155, 178, 209, 214, 67, 75, 139, 41, 174, 119,
               90, 216, 194, 228, 140, 83, 145>>))
    @@ (Text(<<98, 108, 111, 98, 32, 49, 0, 120>>) :>
        Text(<<193, 176, 115, 14, 1, 51, 68, 123, 173, 207, 212, 127, 209,
               68, 226, 84, 128, 123, 6, 225>>))
    @@ (Text(<<98, 108, 111, 98, 32, 50, 0, 121, 121>>) :>
        Text(<<70, 129, 155, 57, 150, 122, 71, 202, 116, 255, 70, 47, 195,
               45, 15, 187, 250, 44, 236, 66>>))
    @@ (Text(<<98, 108, 111, 98, 32, 49, 0, 121>>) :>
        Text(<<226, 95, 24, 20, 229, 21, 121, 213, 245, 92, 15, 31, 224, 19,
               93, 219, 40, 164, 127, 74>>))

\* hashlib.sha1(p).digest()
Sha1(p) ==
    IF p \in DOMAIN Sha1Known THEN Sha1Known[p]
    ELSE [i \in 1..ShaRawLen |-> IF i = 1 THEN <<1, p>> ELSE <<i, <<>>>>]

HexDigit(v) == IF v < 10 THEN B(48 + v) ELSE B(87 + v)

\* bytes.hex(): two lowercase digits a byte
ToHex(b) ==
    [j \in 1..(2 * Len(b)) |->
        LET c == b[(j + 1) \div 2]
        IN  IF IsRawCell(c)
            THEN (IF j % 2 = 1 THEN <<2 * c[1] - 1, c[2], 0>>
                  ELSE <<2 * c[1], <<>>, 0>>)
            ELSE IF j % 2 = 1 THEN HexDigit(c[1] \div 16)
            ELSE HexDigit(c[1] % 16)]

\* hashlib.sha1(p).hexdigest()
HexDigest(p) == ToHex(Sha1(p))

IsHexDigit(c) ==
    /\ IsPlain(c)
    /\ \/ (c[1] >= 48 /\ c[1] <= 57)
       \/ (c[1] >= 97 /\ c[1] <= 102)
       \/ (c[1] >= 65 /\ c[1] <= 70)

HexValue(c) ==
    IF c[1] <= 57 THEN c[1] - 48
    ELSE IF c[1] >= 97 THEN c[1] - 87
    ELSE c[1] - 55

HexPairOk(hi, lo) ==
    \/ IsHexDigit(hi) /\ IsHexDigit(lo)
    \/ /\ IsHexCell(hi) /\ IsHexCell(lo)
       /\ hi[1] % 2 = 1 /\ lo[1] = hi[1] + 1 /\ lo[2] = <<>>

\* bytes.fromhex(s): [ok, b]; ok is FALSE where Python raises ValueError
FromHex(s) ==
    IF \/ Len(s) % 2 # 0
       \/ \E k \in 1..(Len(s) \div 2) : ~HexPairOk(s[2 * k - 1], s[2 * k])
    THEN [ok |-> FALSE, b |-> <<>>]
    ELSE [ok |-> TRUE,
          b  |-> [k \in 1..(Len(s) \div 2) |->
                    LET hi == s[2 * k - 1]
                        lo == s[2 * k]
                    IN  IF IsHexCell(hi) THEN <<(hi[1] + 1) \div 2, hi[2]>>
                        ELSE B(16 * HexValue(hi) + HexValue(lo))]]

\* zlib.compress(b): the file content that inflates to b
Compress(b) == [deflate |-> TRUE, data |-> b]

\* zlib.decompress(f): [ok, data]; ok is FALSE where zlib raises
Decompress(f) == [ok |-> f.deflate, data |-> f.data]

----------------------------------------------------------------------------
(* objects.py: the four record kinds                                       *)

T_blob == Text(<<98, 108, 111, 98>>)

T_tree == Text(<<116, 114, 101, 101>>)

T_commit == Text(<<99, 111, 109, 109, 105, 116>>)

T_tag == Text(<<116, 97, 103>>)

T_parent == Text(<<112, 97, 114, 101, 110, 116>>)

T_author == Text(<<97, 117, 116, 104, 111, 114>>)

T_committer == Text(<<99, 111, 109, 109, 105, 116, 116, 101, 114>>)

T_object == Text(<<111, 98, 106, 101, 99, 116>>)

T_type == Text(<<116, 121, 112, 101>>)

T_tagger == Text(<<116, 97, 103, 103, 101, 114>>)

T_utc == Text(<<43, 48, 48, 48, 48>>)

T_dirmode == Text(<<48, 52, 48, 48, 48, 48>>)

\* Blob(content)
Blob(content) == [type |-> T_blob, content |-> content, cache |-> None]

\* TreeEntry(mode, name, sha1)
TreeEntry(mode, name, sha1) == [mode |-> mode, name |-> name, sha1 |-> sha1]

\* TreeEntry.serialize
TreeEntrySerialize(e) ==
    Encode(e.mode \o <<SP>> \o e.name \o <<NUL>>) \o FromHex(e.sha1).b

\* Tree(entries)
Tree(entries) == [type |-> T_tree, entries |-> entries, cache |-> None]

RECURSIVE TextLess(_, _)
\* a < b of two str, by code point
TextLess(a, b) ==
    IF b = <<>> THEN FALSE
    ELSE IF a = <<>> THEN TRUE
    ELSE IF a[1][1] # b[1][1] THEN a[1][1] < b[1][1]
    ELSE TextLess(Tail(a), Tail(b))

RECURSIVE InsertByName(_, _)
\* e put behind every entry whose name is not greater: the sort is stable
InsertByName(sorted, e) ==
    IF sorted = <<>> THEN <<e>>
    ELSE IF TextLess(e.name, Head(sorted).name) THEN <<e>> \o sorted
    ELSE <<Head(sorted)>> \o InsertByName(Tail(sorted), e)

RECURSIVE SortedByName(_)
\* sorted(entries, key=lambda e: e.name)
SortedByName(entries) ==
    IF entries = <<>> THEN <<>>
    ELSE InsertByName(SortedByName(SubSeq(entries, 1, Len(entries) - 1)),
                      entries[Len(entries)])

\* Tree.data
TreeData(entries) ==
    LET sorted_entries == SortedByName(entries)
    IN  Flat([i \in 1..Len(sorted_entries) |->
                TreeEntrySerialize(sorted_entries[i])])

\* Author(name, email, timestamp, timezone): timestamp is None or <<n>>, and
\* a timestamp of None or 0 is replaced by the clock, an empty timezone by
\* "+0000"
Author(name, email, timestamp, timezone, now) ==
    [name      |-> name,
     email     |-> email,
     timestamp |-> IF timestamp = None \/ timestamp = <<0>> THEN now
                   ELSE timestamp[1],
     timezone  |-> IF timezone = <<>> THEN T_utc ELSE timezone]

\* Author.serialize
AuthorSerialize(a) ==
    a.name \o <<SP, B(60)>> \o a.email \o <<B(62), SP>>
        \o PyStr(a.timestamp) \o <<SP>> \o a.timezone

\* Commit(tree_sha1, parents, author, committer, message): author and
\* committer are None or <<a>>
Commit(tree_sha1, parents, author, committer, message, now) ==
    LET a == IF author = None THEN Author(<<>>, <<>>, None, <<>>, now)
             ELSE author[1]
    IN  [type      |-> T_commit,
         tree_sha1 |-> tree_sha1,
         parents   |-> parents,
         author    |-> a,
         committer |-> IF committer = None THEN a ELSE committer[1],
         message   |-> message,
         cache     |-> None]

\* Commit.data
CommitData(c) ==
    LET lines == <<T_tree \o <<SP>> \o c.tree_sha1>>
                 \o [i \in 1..Len(c.parents) |->
                        T_parent \o <<SP>> \o c.parents[i]]
                 \o <<T_author \o <<SP>> \o AuthorSerialize(c.author),
                      T_committer \o <<SP>> \o AuthorSerialize(c.committer),
                      <<>>,
                      c.message>>
    IN  Encode(JoinWith(<<LF>>, lines))

\* Tag(object_sha1, object_type, tag_name, tagger, message)
Tag(object_sha1, object_type, tag_name, tagger, message, now) ==
    [type        |-> T_tag,
     object_sha1 |-> object_sha1,
     object_type |-> object_type,
     tag_name    |-> tag_name,
     tagger      |-> IF tagger = None THEN Author(<<>>, <<>>, None, <<>>, now)
                     ELSE tagger[1],
     message     |-> message,
     cache       |-> None]

\* Tag.data
TagData(t) ==
    LET lines == <<T_object \o <<SP>> \o t.object_sha1,
                   T_type \o <<SP>> \o t.object_type,
                   T_tag \o <<SP>> \o t.tag_name,
                   T_tagger \o <<SP>> \o AuthorSerialize(t.tagger),
                   <<>>,
                   t.message>>
    IN  Encode(JoinWith(<<LF>>, lines))

\* GitObject.data of each kind
Data(r) ==
    IF r.type = T_blob THEN r.content
    ELSE IF r.type = T_tree THEN TreeData(r.entries)
    ELSE IF r.type = T_commit THEN CommitData(r)
    ELSE TagData(r)

\* f"{type} {len(data)}\0".encode() + data
Frame(type, data) ==
    Encode(type \o <<SP>> \o Dec(Len(data)) \o <<NUL>>) \o data

\* header + self.data, as sha1() and serialize() both build it
Framed(r) == Frame(r.type, Data(r))

\* GitObject.sha1: the cached hash when there is one
ObjSha1(r) == IF r.cache = None THEN HexDigest(Framed(r)) ELSE r.cache

\* the object after a sha1() call: the hash is cached
Hashed(r) == [r EXCEPT !.cache = ObjSha1(r)]

\* GitObject.serialize
Serialize(r) == Compress(Framed(r))

\* add_entry without self._sha1 = None: the stale hash stays cached
TreeAddEntryKeepCache(t, mode, name, sha1) ==
    [t EXCEPT !.entries = Append(@, TreeEntry(mode, name, sha1))]

\* Tree.add_entry
TreeAddEntry(t, mode, name, sha1) ==
    [t EXCEPT !.entries = Append(@, TreeEntry(mode, name, sha1)),
              !.cache = None]

\* add_parent that leaves the cached hash in place
CommitAddParentKeepCache(c, parent_sha1) ==
    [c EXCEPT !.parents = Append(@, parent_sha1)]

\* Commit.add_parent
CommitAddParent(c, parent_sha1) ==
    [c EXCEPT !.parents = Append(@, parent_sha1), !.cache = None]

----------------------------------------------------------------------------
(* repository.py: the object store                                         *)

\* Repository.object_path: [ok, path]; ok is FALSE where it raises ValueError
ObjectPath(sha1) ==
    IF Len(sha1) # ShaHexLen THEN [ok |-> FALSE, path |-> <<>>]
    ELSE [ok |-> TRUE, path |-> <<Slice(sha1, 0, 2), From(sha1, 2)>>]

\* store_object writing into an object directory made anew: the files
\* stored before are gone
StoreAtAlone(st, obj, sha, obj_path) ==
    [objects |-> (obj_path :> Serialize(obj)),
     writes  |-> Append(st.writes, obj_path),
     sha |-> sha, wrote |-> TRUE, raised |-> FALSE]

\* store_object without the obj_path.exists() test: every call writes
StoreAtAlways(st, obj, sha, obj_path) ==
    [objects |-> (obj_path :> Serialize(obj)) @@ st.objects,
     writes  |-> Append(st.writes, obj_path),
     sha |-> sha, wrote |-> TRUE, raised |-> FALSE]

\* the end of store_object once the hash and the path are known. The files
\* of the object directory are keyed <<directory, name>>; a regular file that
\* lies where the two-character directory belongs is keyed <<directory>>:
\* exists() is False under it and mkdir(parents=True, exist_ok=True) raises
\* FileExistsError, which store_object lets through (raised)
StoreAt(st, obj, sha, obj_path) ==
    IF obj_path \in DOMAIN st.objects
    THEN [objects |-> st.objects, writes |-> st.writes,
          sha |-> sha, wrote |-> FALSE, raised |-> FALSE]
    ELSE IF <<obj_path[1]>> \in DOMAIN st.objects
    THEN [objects |-> st.objects, writes |-> st.writes,
          sha |-> sha, wrote |-> FALSE, raised |-> TRUE]
    ELSE [objects |-> (obj_path :> Serialize(obj)) @@ st.objects,
          writes  |-> Append(st.writes, obj_path),
          sha |-> sha, wrote |-> TRUE, raised |-> FALSE]

StoreHashed(st, obj, sha) == StoreAt(st, obj, sha, ObjectPath(sha).path)

\* Repository.store_object on the store st = [objects, writes]: the store
\* afterwards, the hash returned and whether a file was written
StoreObject(st, obj) == StoreHashed(st, obj, ObjSha1(obj))

TreeParsed(ok, entries) == [ok |-> ok, entries |-> entries]

\* an entry parsed with split(" ") on every space: the name loses its tail
TreeEntryParsedEverySpace(mode_name, sp, sha1, rest) ==
    IF sp = -1 \/ ~rest.ok THEN TreeParsed(FALSE, <<>>)
    ELSE TreeParsed(TRUE,
                    <<TreeEntry(Slice(mode_name, 0, sp),
                                SplitOn(From(mode_name, sp + 1), SP)[1], sha1)>>
                    \o rest.entries)

\* mode, name = mode_name.split(" ", 1), and the entry appended
TreeEntryParsed(mode_name, sp, sha1, rest) ==
    IF sp = -1 \/ ~rest.ok THEN TreeParsed(FALSE, <<>>)
    ELSE TreeParsed(TRUE,
                    <<TreeEntry(Slice(mode_name, 0, sp),
                                From(mode_name, sp + 1), sha1)>>
                    \o rest.entries)

TreeEntryDecoded(mode_name, sha1, rest) ==
    IF ~mode_name.ok THEN TreeParsed(FALSE, <<>>)
    ELSE TreeEntryParsed(mode_name.s, FindFrom(mode_name.s, SP, 0), sha1, rest)

RECURSIVE ParseTreeFrom(_, _)
\* one turn of the loop: the entry that ends at null_pos + 21
ParseTreeAt(data, pos, null_pos) ==
    IF null_pos = -1 THEN TreeParsed(TRUE, <<>>)
    ELSE TreeEntryDecoded(Decode(Slice(data, pos, null_pos)),
                          ToHex(Slice(data, null_pos + 1, null_pos + 21)),
                          ParseTreeFrom(data, null_pos + 21))

\* the while loop of Repository._parse_tree from position pos: [ok, entries]
ParseTreeFrom(data, pos) ==
    IF pos >= Len(data) THEN TreeParsed(TRUE, <<>>)
    ELSE ParseTreeAt(data, pos, FindFrom(data, NUL, pos))

TreeFrom(r) == [ok |-> r.ok, obj |-> Tree(r.entries)]

\* Repository._parse_tree
ParseTree(data) == TreeFrom(ParseTreeFrom(data, 0))

\* s.rfind(c)
FindLast(s, c) ==
    LET hits == {i \in 0..(Len(s) - 1) : s[i + 1] = c}
    IN  IF hits = {} THEN -1 ELSE CHOOSE i \in hits : \A j \in hits : i >= j

RSplitAt(s, k1, k2) ==
    IF k1 = -1 THEN <<Slice(s, 0, k2), From(s, k2 + 1)>>
    ELSE <<Slice(s, 0, k1), Slice(s, k1 + 1, k2), From(s, k2 + 1)>>

RSplitLast(s, k2) ==
    IF k2 = -1 THEN <<s>> ELSE RSplitAt(s, FindLast(Slice(s, 0, k2), SP), k2)

\* s.rsplit(" ", 2)
RSplit2(s) == RSplitLast(s, FindLast(s, SP))

\* the name and email cut out of name_email, and the Author built
AuthorFrom(name_email, lt, gt, timestamp, timezone, now) ==
    [ok |-> timestamp.ok,
     a  |-> IF lt # -1 /\ gt # -1
            THEN Author(Strip(Slice(name_email, 0, lt)),
                        Strip(Slice(name_email, lt + 1, gt)),
                        <<timestamp.n>>, timezone, now)
            ELSE Author(name_email, <<>>, <<timestamp.n>>, timezone, now)]

AuthorParts(parts, now) ==
    IF Len(parts) # 3
    THEN [ok |-> TRUE, a |-> Author(<<>>, <<>>, None, <<>>, now)]
    ELSE AuthorFrom(parts[1], FindFrom(parts[1], B(60), 0),
                    FindFrom(parts[1], B(62), 0),
                    ParseInt(Strip(parts[2])), parts[3], now)

\* Repository._parse_author: [ok, a]; ok is FALSE where int() raises
ParseAuthor(author_str, now) == AuthorParts(RSplit2(author_str), now)

\* the fields read so far with the identity a put into field f; the loop
\* ends where a was not parsed
WithIdentity(acc, f, a) ==
    IF ~a.ok THEN [acc EXCEPT !.ok = FALSE, !.stop = TRUE]
    ELSE [acc EXCEPT ![f] = <<a.a>>]

\* one turn of the loop of Repository._parse_commit on line i (0-based)
CommitLine(line, i, acc, now) ==
    IF StartsWith(line, T_tree \o <<SP>>)
    THEN [acc EXCEPT !.tree_sha1 = From(line, 5)]
    ELSE IF StartsWith(line, T_parent \o <<SP>>)
    THEN [acc EXCEPT !.parents = Append(@, From(line, 7))]
    ELSE IF StartsWith(line, T_author \o <<SP>>)
    THEN WithIdentity(acc, "author", ParseAuthor(From(line, 7), now))
    ELSE IF StartsWith(line, T_committer \o <<SP>>)
    THEN WithIdentity(acc, "committer", ParseAuthor(From(line, 9), now))
    ELSE IF line = <<>>
    THEN [acc EXCEPT !.message_start = i + 1, !.stop = TRUE]
    ELSE acc

RECURSIVE CommitLines(_, _, _, _)
\* the while loop of Repository._parse_commit from line i
CommitLines(lines, i, acc, now) ==
    IF i >= Len(lines) \/ acc.stop THEN acc
    ELSE CommitLines(lines, i + 1, CommitLine(lines[i + 1], i, acc, now), now)

CommitFrom(lines, acc, now) ==
    IF ~acc.ok THEN [ok |-> FALSE, obj |-> None]
    ELSE [ok |-> TRUE,
          obj |-> Commit(acc.tree_sha1, acc.parents, acc.author,
                         acc.committer,
                         JoinWith(<<LF>>, From(lines, acc.message_start)),
                         now)]

CommitOfLines(lines, now) ==
    CommitFrom(lines,
               CommitLines(lines, 0,
                           [ok |-> TRUE, stop |-> FALSE, tree_sha1 |-> <<>>,
                            parents |-> <<>>, author |-> None,
                            committer |-> None, message_start |-> 0], now),
               now)

CommitOfText(text, now) ==
    IF ~text.ok THEN [ok |-> FALSE, obj |-> None]
    ELSE CommitOfLines(SplitOn(text.s, LF), now)

\* Repository._parse_commit: [ok, obj]
ParseCommit(data, now) == CommitOfText(Decode(data), now)

\* one turn of the loop of Repository._parse_tag on line i (0-based)
TagLine(line, i, acc, now) ==
    IF StartsWith(line, T_object \o <<SP>>)
    THEN [acc EXCEPT !.object_sha1 = From(line, 7)]
    ELSE IF StartsWith(line, T_type \o <<SP>>)
    THEN [acc EXCEPT !.object_type = From(line, 5)]
    ELSE IF StartsWith(line, T_tag \o <<SP>>)
    THEN [acc EXCEPT !.tag_name = From(line, 4)]
    ELSE IF StartsWith(line, T_tagger \o <<SP>>)
    THEN WithIdentity(acc, "tagger", ParseAuthor(From(line, 7), now))
    ELSE IF line = <<>>
    THEN [acc EXCEPT !.message_start = i + 1, !.stop = TRUE]
    ELSE acc

RECURSIVE TagLines(_, _, _, _)
\* the while loop of Repository._parse_tag from line i
TagLines(lines, i, acc, now) ==
    IF i >= Len(lines) \/ acc.stop THEN acc
    ELSE TagLines(lines, i + 1, TagLine(lines[i + 1], i, acc, now), now)

TagFrom(lines, acc, now) ==
    IF ~acc.ok THEN [ok |-> FALSE, obj |-> None]
    ELSE [ok |-> TRUE,
          obj |-> Tag(acc.object_sha1, acc.object_type, acc.tag_name,
                      acc.tagger,
                      JoinWith(<<LF>>, From(lines, acc.message_start)), now)]

TagOfLines(lines, now) ==
    TagFrom(lines,
            TagLines(lines, 0,
                     [ok |-> TRUE, stop |-> FALSE, object_sha1 |-> <<>>,
                      object_type |-> <<>>, tag_name |-> <<>>,
                      tagger |-> None, message_start |-> 0], now),
            now)

TagOfText(text, now) ==
    IF ~text.ok THEN [ok |-> FALSE, obj |-> None]
    ELSE TagOfLines(SplitOn(text.s, LF), now)

\* Repository._parse_tag: [ok, obj]
ParseTag(data, now) == TagOfText(Decode(data), now)

\* what get_object gives: status "none" (it returned None), "object" (it
\* returned obj) or "error" (it raised ValueError, for the reason why)
Outcome(status, why, obj) == [status |-> status, why |-> why, obj |-> obj]

Failed(why) == Outcome("error", why, None)

ParsedOutcome(parsed) ==
    IF ~parsed.ok THEN Failed("parse") ELSE Outcome("object", "", parsed.obj)

\* "Create appropriate object type"
ReadTyped(obj_type, obj_data, now) ==
    IF obj_type = T_blob THEN Outcome("object", "", Blob(obj_data))
    ELSE IF obj_type = T_tree THEN ParsedOutcome(ParseTree(obj_data))
    ELSE IF obj_type = T_commit THEN ParsedOutcome(ParseCommit(obj_data, now))
    ELSE IF obj_type = T_tag THEN ParsedOutcome(ParseTag(obj_data, now))
    ELSE Failed("unknown object type")

ReadSized(obj_type, size, obj_data, now) ==
    IF ~size.ok THEN Failed("invalid object size")
    ELSE IF Len(obj_data) # size.n THEN Failed("object size mismatch")
    ELSE ReadTyped(obj_type, obj_data, now)

\* obj_type, size_str = header.split(" ", 1)
ReadHeader(header, sp, obj_data, now) ==
    IF sp = -1 THEN Failed("invalid object header")
    ELSE ReadSized(Slice(header, 0, sp), ParseInt(Strip(From(header, sp + 1))),
                   obj_data, now)

ReadDecoded(header, obj_data, now) ==
    IF ~header.ok THEN Failed("header decode")
    ELSE ReadHeader(header.s, FindFrom(header.s, SP, 0), obj_data, now)

ReadData(data, null_pos, now) ==
    IF null_pos = -1 THEN Failed("invalid object format")
    ELSE ReadDecoded(Decode(Slice(data, 0, null_pos)),
                     From(data, null_pos + 1), now)

ReadInflated(inflated, now) ==
    IF ~inflated.ok THEN Failed("decompress")
    ELSE ReadData(inflated.data, FindFrom(inflated.data, NUL, 0), now)

ReadPath(objs, obj_path, now) ==
    IF ~obj_path.ok THEN Failed("invalid sha1")
    ELSE IF obj_path.path \notin DOMAIN objs THEN Outcome("none", "", None)
    ELSE ReadInflated(Decompress(objs[obj_path.path]), now)

\* Repository.get_object
GetObject(objs, sha1, now) == ReadPath(objs, ObjectPath(sha1), now)

----------------------------------------------------------------------------
(* index.py: IndexEntry                                                    *)

Zero == <<0, 0>>

\* the number n < 2^31 as a pair
Wide(n) == <<n \div 65536, n % 65536>>

\* w <= 0xFFFFFFFF
Fits32(w) == w[1] <= 65535

\* w & 0xFFFFFFFF
Mask32(w) == <<w[1] % 65536, w[2]>>

\* w & 0xFFFFFFFF if w <= 0xFFFFFFFF else 0
Clamp32(w) == IF Fits32(w) THEN w ELSE Zero

\* struct.pack(">I", w) of a w that fits
Pack32(w) ==
    <<B(w[1] \div 256), B(w[1] % 256), B(w[2] \div 256), B(w[2] % 256)>>

\* struct.pack(">H", n)
Pack16(n) == <<B(n \div 256), B(n % 256)>>

\* struct.unpack_from(">I", data, offset)[0] where the four bytes are there
Unpack32(data, offset) ==
    <<data[offset + 1][1] * 256 + data[offset + 2][1],
      data[offset + 3][1] * 256 + data[offset + 4][1]>>

\* struct.unpack_from(">H", data, offset)[0]
Unpack16(data, offset) == data[offset + 1][1] * 256 + data[offset + 2][1]

Zeros(n) == [i \in 1..n |-> NUL]

\* struct.pack("20s", b): b cut or NUL-padded to 20 bytes
Pack20s(b) == SubSeq(b \o Zeros(ShaRawLen), 1, ShaRawLen)

\* the quotient and the last octal digit of w
WideDiv8(w) ==
    <<w[1] \div 8, ((w[1] % 8) * 65536 + w[2]) \div 8>>

WideMod8(w) == w[2] % 8

RECURSIVE OctWide(_)
\* f"{w:o}"
OctWide(w) ==
    IF w[1] = 0 /\ w[2] < 8 THEN <<B(48 + w[2])>>
    ELSE OctWide(WideDiv8(w)) \o <<B(48 + WideMod8(w))>>

\* f"{w:06o}"
Oct06(w) == ZeroPad(OctWide(w), 6)

MODE_FILE == Wide(33188)

MODE_EXECUTABLE == Wide(33261)

EntryHeaderLen == 66

PathOffset == 62

SLASH == B(47)

\* path is a file of the working tree wt
IsFile(wt, path) == path \in DOMAIN wt

\* path is a directory of the working tree: its root, or a parent of a file
IsDir(wt, path) ==
    \/ path = <<>>
    \/ \E f \in DOMAIN wt : StartsWith(f, path \o <<SLASH>>)

\* os.stat of a directory; st_mtime is mtime seconds and frac nanoseconds
DirStat ==
    [mtime |-> Wide(1700000000), frac |-> 0, ctime |-> Wide(1700000000),
     dev |-> Wide(2049), ino |-> Wide(2), uid |-> Wide(1000),
     gid |-> Wide(1000)]

\* <<os.stat(path)>> where os.path.exists(path) holds for the relative path
\* in the working directory of the process, which is the root of the working
\* tree (env.cwd = "repo") or a directory that holds none of its paths
OsStat(env, path) ==
    IF env.cwd # "repo" \/ path = <<>> THEN None
    ELSE IF IsFile(env.worktree, path) THEN <<env.worktree[path].stat>>
    ELSE IF IsDir(env.worktree, path) THEN <<DirStat>>
    ELSE None

\* IndexEntry(path, sha1, mode, size, mtime, ctime): the mtime and ctime
\* arguments are not used; st is None, or <<os.stat(path)>> where
\* os.path.exists(path) holds in the working directory of the process
IndexEntry(path, sha1, mode, size, st) ==
    [path  |-> path,
     sha1  |-> sha1,
     mode  |-> mode,
     size  |-> size,
     mtime |-> IF st = None THEN Zero ELSE Mask32(st[1].mtime),
     ctime |-> IF st = None THEN Zero ELSE Mask32(st[1].ctime),
     dev   |-> IF st = None THEN Zero ELSE Clamp32(st[1].dev),
     ino   |-> IF st = None THEN Zero ELSE Clamp32(st[1].ino),
     uid   |-> IF st = None THEN Zero ELSE Clamp32(st[1].uid),
     gid   |-> IF st = None THEN Zero ELSE Clamp32(st[1].gid),
     flags |-> Min(Len(path), 65535)]

\* (8 - entry_size % 8) % 8
Padding(entry_size) == (8 - (entry_size % 8)) % 8

\* data + path_bytes, with the padding for entry_size = 62 + len(path_bytes)
EntryBytes(data, path_bytes) ==
    data \o path_bytes \o Zeros(Padding(PathOffset + Len(path_bytes)))

\* the bytearray(66) after the pack_into calls
EntryHeader(e, sha1_bytes) ==
    Pack32(Clamp32(e.ctime)) \o Pack32(Clamp32(e.mtime))
        \o Pack32(e.dev) \o Pack32(e.ino)
        \o Pack32(e.mode) \o Pack32(e.uid) \o Pack32(e.gid)
        \o Zeros(12)
        \o Pack20s(sha1_bytes)
        \o Pack16(e.flags)
        \o Pack32(e.size)

EntryPacked(e, sha1_bytes) ==
    IF ~sha1_bytes.ok THEN [ok |-> FALSE, b |-> <<>>]
    ELSE [ok |-> TRUE,
          b  |-> EntryBytes(EntryHeader(e, sha1_bytes.b),
                            Encode(e.path) \o <<NUL>>)]

\* IndexEntry.serialize: [ok, b]; ok is FALSE where pack_into raises
\* struct.error (a field past 32 bits) or fromhex raises ValueError
EntrySerialize(e) ==
    IF \E f \in {"dev", "ino", "mode", "uid", "gid", "size"} : ~Fits32(e[f])
    THEN [ok |-> FALSE, b |-> <<>>]
    ELSE EntryPacked(e, FromHex(e.sha1))

EntryFailed(why) ==
    [ok |-> FALSE, why |-> why, entry |-> None, next_offset |-> 0]

\* entry = cls(path, sha1, mode, size, mtime, ctime), the fields set on it
\* afterwards, and next_offset
EntryRead(data, offset, path, path_end, st) ==
    [ok    |-> TRUE,
     why   |-> "",
     entry |-> [IndexEntry(path, ToHex(Slice(data, offset + 40, offset + 60)),
                           Unpack32(data, offset + 16),
                           Unpack32(data, offset + PathOffset), st)
                EXCEPT !.dev = Unpack32(data, offset + 8),
                       !.ino = Unpack32(data, offset + 12),
                       !.uid = Unpack32(data, offset + 20),
                       !.gid = Unpack32(data, offset + 24),
                       !.flags = Unpack16(data, offset + 60)],
     next_offset |-> offset + (PathOffset + path_end - (offset + PathOffset) + 1)
                     + Padding(PathOffset + path_end - (offset + PathOffset) + 1)]

\* path = data[path_start:path_end].decode("utf-8")
EntryPathDecoded(data, offset, path, path_end, env) ==
    IF ~path.ok THEN EntryFailed("UnicodeDecodeError")
    ELSE EntryRead(data, offset, path.s, path_end, OsStat(env, path.s))

\* path_end = data.find(b"\x00", path_start); a path_end of -1 cuts the
\* last byte off
EntryPathFound(data, offset, path_end, env) ==
    EntryPathDecoded(data, offset,
                     Decode(Slice(data, offset + PathOffset,
                                  IF path_end = -1 THEN Len(data) - 1
                                  ELSE path_end)),
                     path_end, env)

\* IndexEntry.deserialize(data, offset): [ok, why, entry, next_offset], in
\* the environment env = [cwd, worktree].  unpack_from raises struct.error
\* where the buffer ends before the field
EntryDeserialize(data, offset, env) ==
    IF offset + EntryHeaderLen > Len(data) THEN EntryFailed("struct.error")
    ELSE EntryPathFound(data, offset,
                        FindFrom(data, NUL, offset + PathOffset), env)

----------------------------------------------------------------------------
(* index.py: Index.  entries is the dict self.entries as the sequence of   *)
(* its values in insertion order                                           *)

\* an update of the hash alone of the entry that is there
PutHashOnly(entries, e) ==
    IF \E i \in DOMAIN entries : entries[i].path = e.path
    THEN [i \in DOMAIN entries |->
             IF entries[i].path = e.path
             THEN [entries[i] EXCEPT !.sha1 = e.sha1] ELSE entries[i]]
    ELSE Append(entries, e)

\* self.entries[e.path] = e
Put(entries, e) ==
    IF \E i \in DOMAIN entries : entries[i].path = e.path
    THEN [i \in DOMAIN entries |->
             IF entries[i].path = e.path THEN e ELSE entries[i]]
    ELSE Append(entries, e)

Paths(entries) == {entries[i].path : i \in DOMAIN entries}

T_DIRC == Text(<<68, 73, 82, 67>>)

IndexHeaderLen == 12

IndexVersion == 2

\* the number w < 2^31 as an integer
ToInt(w) == w[1] * 65536 + w[2]

\* what _load leaves: the entries, and whether the file was found corrupt
Loaded(entries, corrupt) == [entries |-> entries, corrupt |-> corrupt]

RECURSIVE LoadEntries(_, _, _, _, _)
\* entry, offset = IndexEntry.deserialize(data, offset) gave r
LoadEntry(data, r, n, acc, env) ==
    IF ~r.ok THEN Loaded(<<>>, TRUE)
    ELSE LoadEntries(data, r.next_offset, n - 1, Put(acc, r.entry), env)

\* the loop "for i in range(entry_count)" with n turns left
LoadEntries(data, offset, n, acc, env) ==
    IF n = 0 THEN Loaded(acc, FALSE)
    ELSE LoadEntry(data, EntryDeserialize(data, offset, env), n, acc, env)

\* the try block without the check of the version
LoadDataAnyVersion(data, env) ==
    IF Len(data) < IndexHeaderLen THEN Loaded(<<>>, TRUE)
    ELSE IF Slice(data, 0, 4) # T_DIRC THEN Loaded(<<>>, TRUE)
    ELSE LoadEntries(data, IndexHeaderLen, ToInt(Unpack32(data, 8)), <<>>, env)

\* the try block of Index._load on the bytes of the index file
LoadData(data, env) ==
    IF Len(data) < IndexHeaderLen THEN Loaded(<<>>, TRUE)
    ELSE IF Slice(data, 0, 4) # T_DIRC THEN Loaded(<<>>, TRUE)
    ELSE IF Unpack32(data, 4) # Wide(IndexVersion) THEN Loaded(<<>>, TRUE)
    ELSE LoadEntries(data, IndexHeaderLen, ToInt(Unpack32(data, 8)), <<>>, env)

\* Index._load: file is None or <<the bytes of .git/index>>
IndexLoad(file, env) ==
    IF file = None THEN Loaded(<<>>, FALSE) ELSE LoadData(file[1], env)

RECURSIVE InsertByPath(_, _)
\* e put behind the last entry of sorted whose path is not greater
InsertByPath(sorted, e) ==
    IF sorted = <<>> \/ ~TextLess(e.path, sorted[Len(sorted)].path)
    THEN Append(sorted, e)
    ELSE Append(InsertByPath(SubSeq(sorted, 1, Len(sorted) - 1), e),
                sorted[Len(sorted)])

\* the values of self.entries as they are, in insertion order
InsertionOrder(entries) == entries

RECURSIVE SortedByPath(_)
\* sorted(self.entries.values(), key=lambda e: e.path)
SortedByPath(entries) ==
    IF entries = <<>> THEN <<>>
    ELSE InsertByPath(SortedByPath(SubSeq(entries, 1, Len(entries) - 1)),
                      entries[Len(entries)])

\* header + entries_data of the serialized entries parts
IndexBytes(n, parts) ==
    IF \E i \in DOMAIN parts : ~parts[i].ok THEN [ok |-> FALSE, data |-> <<>>]
    ELSE [ok |-> TRUE,
          data |-> T_DIRC \o Pack32(Wide(IndexVersion)) \o Pack32(Wide(n))
                   \o Flat([i \in DOMAIN parts |-> parts[i].b])]

SerializedAll(sorted) == [i \in DOMAIN sorted |-> EntrySerialize(sorted[i])]

\* Index.save: [ok, data]; ok is FALSE where serialize raises, and then no
\* file is written
IndexSave(entries) ==
    IndexBytes(Len(entries), SerializedAll(SortedByPath(entries)))

\* what Index.add gives: the entries, the store, and the value returned
Added(entries, st, ok) ==
    [entries |-> entries, objects |-> st.objects, writes |-> st.writes,
     ok |-> ok]

\* the try block of add after store_object: the entry made of the blob
\* stored, and self.entries[path] = entry; "except Exception" turns an
\* error of store_object into the value False
AddStored(entries, stored, env, path, file) ==
    IF stored.raised THEN Added(entries, stored, FALSE)
    ELSE Added(Put(entries,
                   IndexEntry(path, stored.sha,
                              IF file.exec THEN MODE_EXECUTABLE ELSE MODE_FILE,
                              Wide(Len(file.content)), OsStat(env, path))),
               stored, TRUE)

\* add without the is_file check, a directory read as an empty file
IndexAddNoFileCheck(entries, st, env, path) ==
    IF ~(IsFile(env.worktree, path) \/ IsDir(env.worktree, path))
    THEN Added(entries, st, FALSE)
    ELSE IF ~IsFile(env.worktree, path)
    THEN AddStored(entries, StoreObject(st, Blob(<<>>)), env, path,
                   [content |-> <<>>, exec |-> TRUE, stat |-> DirStat])
    ELSE AddStored(entries, StoreObject(st, Blob(env.worktree[path].content)),
                   env, path, env.worktree[path])

\* Index.add(path) on a POSIX platform
IndexAdd(entries, st, env, path) ==
    IF ~(IsFile(env.worktree, path) \/ IsDir(env.worktree, path))
    THEN Added(entries, st, FALSE)
    ELSE IF ~IsFile(env.worktree, path) THEN Added(entries, st, FALSE)
    ELSE AddStored(entries, StoreObject(st, Blob(env.worktree[path].content)),
                   env, path, env.worktree[path])

\* remove that answers whether anything is staged, not whether path is
IndexRemoveAny(entries, path) ==
    [entries |-> SelectSeq(entries, LAMBDA e : e.path # path),
     ok |-> entries # <<>>]

\* Index.remove(path): [entries, ok]
IndexRemove(entries, path) ==
    IF path \in Paths(entries)
    THEN [entries |-> SelectSeq(entries, LAMBDA e : e.path # path),
          ok |-> TRUE]
    ELSE [entries |-> entries, ok |-> FALSE]

\* Index.clear
IndexClear(entries) == <<>>

\* full_path.stat() of a path that exists: st_mtime as seconds and
\* nanoseconds, and st_size
PathStat(wt, path) ==
    IF IsFile(wt, path)
    THEN [mtime |-> wt[path].stat.mtime, frac |-> wt[path].stat.frac,
          size |-> Wide(Len(wt[path].content))]
    ELSE [mtime |-> DirStat.mtime, frac |-> DirStat.frac, size |-> Wide(4096)]

\* current_mtime != entry.mtime or current_size != entry.size
MetadataDiffers(st, e) ==
    st.frac # 0 \/ st.mtime # e.mtime \/ st.size # e.size

\* what the loop of get_modified_files sets for the entry e: "deleted",
\* "modified", or "" where it sets nothing.  read_bytes of a directory
\* raises, and the bare except sets "modified"
EntryStatus(wt, e) ==
    IF ~(IsFile(wt, e.path) \/ IsDir(wt, e.path)) THEN "deleted"
    ELSE IF ~MetadataDiffers(PathStat(wt, e.path), e) THEN ""
    ELSE IF ~IsFile(wt, e.path) THEN "modified"
    ELSE IF HexDigest(Framed(Blob(wt[e.path].content))) # e.sha1
    THEN "modified"
    ELSE ""

\* Index.get_modified_files: the dict returned, as the sequence of its
\* items <<path, status>>
IndexGetModifiedFiles(entries, wt) ==
    SelectSeq([i \in DOMAIN entries |->
                  <<entries[i].path, EntryStatus(wt, entries[i])>>],
              LAMBDA item : item[2] # "")

\* Path(path).parts of a relative or absolute POSIX path
PathParts(path) ==
    (IF StartsWith(path, <<SLASH>>) THEN <<(<<SLASH>>)>> ELSE <<>>)
    \o SelectSeq(SplitOn(path, SLASH),
                 LAMBDA x : x # <<>> /\ x # <<B(46)>>)

\* directories[key].append(e), a new key going last
AddToGroup(groups, key, e) ==
    IF \E i \in DOMAIN groups : groups[i].key = key
    THEN [i \in DOMAIN groups |->
             IF groups[i].key = key
             THEN [groups[i] EXCEPT !.entries = Append(@, e)]
             ELSE groups[i]]
    ELSE Append(groups, [key |-> key, entries |-> <<e>>])

RECURSIVE GroupBy(_, _, _)
\* the dict of lists filled from the items [key, e] in order, from item k
GroupBy(items, k, groups) ==
    IF k > Len(items) THEN groups
    ELSE GroupBy(items, k + 1, AddToGroup(groups, items[k].key, items[k].e))

FileEntry(e, name) == TreeEntry(Oct06(e.mode), name, e.sha1)

\* the slice taken one place early: entry.path[len(dir_path):]
RelativePathKeepSlash(dir_path, path) ==
    IF dir_path # <<>> THEN SubSeq(path, Len(dir_path) + 1, Len(path))
    ELSE path

\* relative_path = entry.path[len(dir_path) + 1:] if dir_path
RelativePath(dir_path, path) ==
    IF dir_path # <<>> THEN SubSeq(path, Len(dir_path) + 2, Len(path))
    ELSE path

\* the entries "in this directory", as tree entries
SubtreeFiles(dir_path, entries) ==
    [i \in DOMAIN entries |->
        FileEntry(entries[i], RelativePath(dir_path, entries[i].path))]

\* the name of the first directory of the relative path of each entry
Subdirs(dir_path, entries) ==
    [i \in DOMAIN entries |->
        [key |-> SplitOn(RelativePath(dir_path, entries[i].path), SLASH)[1],
         e   |-> entries[i]]]

InThisDir(dir_path, e) ==
    Len(SplitOn(RelativePath(dir_path, e.path), SLASH)) = 1

RECURSIVE CreateSubtree(_, _, _)
RECURSIVE SubdirLoop(_, _, _, _, _)
\* tree_entries.append(TreeEntry("040000", subdir, subtree_sha1))
SubdirStored(stored, dir_path, groups, k, tree_entries) ==
    SubdirLoop(stored, dir_path, groups, k + 1,
               Append(tree_entries,
                      TreeEntry(T_dirmode, groups[k].key, stored.sha)))

SubdirCreated(sub, dir_path, groups, k, tree_entries) ==
    SubdirStored(StoreObject(sub.st, sub.tree), dir_path, groups, k,
                 tree_entries)

\* the loop "for subdir, sub_entries in subdirs.items()" from turn k, and
\* the Tree returned: [st, tree]
SubdirLoop(st, dir_path, groups, k, tree_entries) ==
    IF k > Len(groups) THEN [st |-> st, tree |-> Tree(tree_entries)]
    ELSE SubdirCreated(
             CreateSubtree(st,
                           IF dir_path # <<>>
                           THEN dir_path \o <<SLASH>> \o groups[k].key
                           ELSE groups[k].key,
                           groups[k].entries),
             dir_path, groups, k, tree_entries)

\* Index._create_subtree(dir_path, entries) on the store st: [st, tree]
CreateSubtree(st, dir_path, entries) ==
    SubdirLoop(st, dir_path,
               GroupBy(Subdirs(dir_path,
                               SelectSeq(entries,
                                         LAMBDA e : ~InThisDir(dir_path, e))),
                       1, <<>>),
               1,
               SubtreeFiles(dir_path,
                            SelectSeq(entries,
                                      LAMBDA e : InThisDir(dir_path, e))))

\* "/".join(parts[:-1])
DirPath(parts) == JoinWith(<<SLASH>>, SubSeq(parts, 1, Len(parts) - 1))

\* dir_path.rsplit("/", 1)[1] if "/" in dir_path else dir_path
DirName(dir_path) == From(dir_path, FindLast(dir_path, SLASH) + 1)

IsRootLevel(e) == Len(PathParts(e.path)) = 1

RootFiles(entries) ==
    [i \in DOMAIN entries |-> FileEntry(entries[i], entries[i].path)]

Directories(entries) ==
    [i \in DOMAIN entries |->
        [key |-> DirPath(PathParts(entries[i].path)), e |-> entries[i]]]

RECURSIVE DirLoop(_, _, _, _)
\* tree_entries.append(TreeEntry("040000", dir_name, subtree_sha1))
DirStored(stored, dirs, k, tree_entries) ==
    DirLoop(stored, dirs, k + 1,
            Append(tree_entries,
                   TreeEntry(T_dirmode, DirName(dirs[k].key), stored.sha)))

\* write_tree that takes the hash of a subtree without storing the subtree
DirCreatedUnstored(sub, dirs, k, tree_entries) ==
    DirStored([objects |-> sub.st.objects, writes |-> sub.st.writes,
               sha |-> ObjSha1(sub.tree), wrote |-> FALSE, raised |-> FALSE],
              dirs, k, tree_entries)

\* subtree_sha1 = self.repository.store_object(subtree)
DirCreated(sub, dirs, k, tree_entries) ==
    DirStored(StoreObject(sub.st, sub.tree), dirs, k, tree_entries)

\* the loop "for dir_path, entries in directories.items()" from turn k, and
\* the root tree stored: what store_object gave, [objects, writes, sha]
DirLoop(st, dirs, k, tree_entries) ==
    IF k > Len(dirs) THEN StoreObject(st, Tree(tree_entries))
    ELSE DirCreated(CreateSubtree(st, dirs[k].key, dirs[k].entries),
                    dirs, k, tree_entries)

\* Index.write_tree on the store st
IndexWriteTree(st, entries) ==
    DirLoop(st,
            GroupBy(Directories(SelectSeq(entries,
                                          LAMBDA e : ~IsRootLevel(e))),
                    1, <<>>),
            1,
            RootFiles(SelectSeq(entries, IsRootLevel)))

----------------------------------------------------------------------------
(* The records the object store is exercised with                          *)

MaxLen == 2

MaxOps == 3

SeqsUpTo(S, n) == UNION {[1..k -> S] : k \in 0..n}

\* the hash of the empty blob, and the literal hash "abcd1234" * 5
H_empty == HexDigest(Framed(Blob(<<>>)))

H_lit == Flat([i \in 1..5 |-> Text(<<97, 98, 99, 100, 49, 50, 51, 52>>)])

Hashes == {H_empty, H_lit}

T_file == Text(<<49, 48, 48, 54, 52, 52>>)

T_exec == Text(<<49, 48, 48, 55, 53, 53>>)

\* tree entries: a name used twice, a name with a space and beyond ASCII
EntryPool ==
    {TreeEntry(T_file, Text(<<98>>), H_empty),
     TreeEntry(T_dirmode, Text(<<98>>), H_lit),
     TreeEntry(T_exec, Text(<<97, 32, 233>>), H_lit)}

BytePool == {B(0), B(10), B(255)}

\* the clock readings datetime.now() may give
Clock == {1700000001, 1700000002}

\* Author arguments <<name, email, timestamp, timezone>>
A_full ==
    <<Text(<<65, 32, 66>>), Text(<<97, 64, 120>>), <<1700000000>>,
      Text(<<45, 48, 53, 51, 48>>)>>

A_bare == <<<<>>, <<>>, <<1>>, T_utc>>

A_epoch == <<Text(<<65>>), Text(<<97, 64, 120>>), <<0>>, T_utc>>

AuthorPool == {A_full, A_bare, A_epoch}

\* messages: empty, one line, lines with a blank line between, a lone newline
MessagePool ==
    {<<>>, Text(<<109>>), Text(<<109, 10, 10, 120, 10>>), Text(<<10>>)}

BlobRequests ==
    {[kind |-> "blob", content |-> c] : c \in SeqsUpTo(BytePool, MaxLen)}

TreeRequests ==
    {[kind |-> "tree", entries |-> es] : es \in SeqsUpTo(EntryPool, MaxLen)}

CommitRequest(ps, a, c, m) ==
    [kind |-> "commit", tree_sha1 |-> H_empty, parents |-> ps,
     author |-> a, committer |-> c, message |-> m]

CommitRequests ==
    {CommitRequest(ps, A_full, None, Text(<<109>>)) :
        ps \in SeqsUpTo(Hashes, MaxLen)}
    \cup {CommitRequest(<<>>, a, c, Text(<<109, 10, 10, 120, 10>>)) :
            a \in AuthorPool, c \in {None} \cup {<<x>> : x \in AuthorPool}}
    \cup {CommitRequest(<<H_lit>>, A_bare, <<A_full>>, m) : m \in MessagePool}

TagRequests ==
    {[kind |-> "tag", object_sha1 |-> H_lit, object_type |-> T_commit,
      tag_name |-> Text(<<118, 32, 49>>), tagger |-> a, message |-> m] :
        a \in AuthorPool, m \in MessagePool}

MkAuthor(args, now) == Author(args[1], args[2], args[3], args[4], now)

\* the constructor call a request stands for
Build(r, now) ==
    IF r.kind = "blob" THEN Blob(r.content)
    ELSE IF r.kind = "tree" THEN Tree(r.entries)
    ELSE IF r.kind = "commit"
    THEN Commit(r.tree_sha1, r.parents, <<MkAuthor(r.author, now)>>,
                IF r.committer = None THEN None
                ELSE <<MkAuthor(r.committer[1], now)>>,
                r.message, now)
    ELSE Tag(r.object_sha1, r.object_type, r.tag_name,
             <<MkAuthor(r.tagger, now)>>, r.message, now)

----------------------------------------------------------------------------
(* SpecObj: one record is constructed, hashed, changed, stored and read    *)

objVars == <<objects, writes, rec, req, ret, got, op>>

idxVars == <<worktree, cwd, indexEntries, indexFile, backupFile>>

vars == <<objects, writes, rec, req, ret, got, op,
          worktree, cwd, indexEntries, indexFile, backupFile>>

\* a repository with an empty working tree and no index
NoIndex ==
    /\ worktree = <<>>
    /\ cwd = "repo"
    /\ indexEntries = <<>>
    /\ indexFile = None
    /\ backupFile = None

\* the operation just done: its name, whether it wrote an object file, and
\* how many operations were done so far
Did(name, wrote) == [name |-> name, wrote |-> wrote, n |-> op.n + 1]

ObjInit ==
    /\ objects = <<>>
    /\ writes = <<>>
    /\ \E r \in BlobRequests \cup TreeRequests \cup CommitRequests
                \cup TagRequests, now \in Clock :
          /\ req = r
          /\ rec = Build(r, now)
    /\ ret = None
    /\ got = None
    /\ op = [name |-> "new", wrote |-> FALSE, n |-> 0]
    /\ NoIndex

\* rec.sha1()
ObjHash ==
    /\ op.n < MaxOps
    /\ rec' = Hashed(rec)
    /\ op' = Did("sha1", FALSE)
    /\ UNCHANGED <<objects, writes, req, ret, got>>
    /\ UNCHANGED idxVars

\* the state after a store_object call that gave r; kept is rec afterwards
Stored(r, obj, kept) ==
    /\ objects' = r.objects
    /\ writes' = r.writes
    /\ rec' = kept
    /\ ret' = <<[sha |-> r.sha, obj |-> [obj EXCEPT !.cache = None]]>>
    /\ op' = Did("store", r.wrote)
    /\ UNCHANGED <<req, got>>
    /\ UNCHANGED idxVars

\* repo.store_object(rec)
ObjStore ==
    /\ op.n < MaxOps
    /\ Stored(StoreObject([objects |-> objects, writes |-> writes], rec),
              rec, Hashed(rec))

\* repo.store_object(twin) of a second record with the fields of rec
ObjStoreTwin ==
    /\ op.n < MaxOps
    /\ Stored(StoreObject([objects |-> objects, writes |-> writes],
                          [rec EXCEPT !.cache = None]),
              rec, rec)

\* repo.get_object(sha1) of the hash store_object returned, or of rec's hash
ObjGet ==
    /\ op.n < MaxOps
    /\ \E sha1 \in {ObjSha1(rec)} \cup {ret[i].sha : i \in DOMAIN ret},
          now \in Clock :
            /\ got' = <<[sha |-> sha1] @@ GetObject(objects, sha1, now)>>
            /\ op' = Did("get", FALSE)
            /\ UNCHANGED <<objects, writes, rec, req, ret>>
            /\ UNCHANGED idxVars

\* rec.add_entry(mode, name, sha1)
ObjAddEntry ==
    /\ op.n < MaxOps
    /\ rec.type = T_tree
    /\ Len(rec.entries) < MaxLen
    /\ \E e \in EntryPool : rec' = TreeAddEntry(rec, e.mode, e.name, e.sha1)
    /\ op' = Did("add_entry", FALSE)
    /\ UNCHANGED <<objects, writes, req, ret, got>>
    /\ UNCHANGED idxVars

\* rec.add_parent(parent_sha1)
ObjAddParent ==
    /\ op.n < MaxOps
    /\ rec.type = T_commit
    /\ Len(rec.parents) < MaxLen
    /\ \E p \in Hashes : rec' = CommitAddParent(rec, p)
    /\ op' = Did("add_parent", FALSE)
    /\ UNCHANGED <<objects, writes, req, ret, got>>
    /\ UNCHANGED idxVars

ObjNext ==
    \/ ObjHash
    \/ ObjStore
    \/ ObjStoreTwin
    \/ ObjGet
    \/ ObjAddEntry
    \/ ObjAddParent

SpecObj == ObjInit /\ [][ObjNext]_vars

----------------------------------------------------------------------------
(* The working tree the staging area is exercised with                     *)

P_a == Text(<<97>>)

P_da == Text(<<100, 47, 97>>)

P_db == Text(<<100, 47, 98>>)

P_ea == Text(<<101, 47, 97>>)

P_dea == Text(<<100, 47, 101, 47, 97>>)

\* a directory, and a path that does not exist
P_d == Text(<<100>>)

P_zz == Text(<<122, 122>>)

\* a file of the directory that takes the place of the file a
P_aa == Text(<<97, 47, 97>>)

C_x == Text(<<120>>)

C_yy == Text(<<121, 121>>)

C_y == Text(<<121>>)

H_x == HexDigest(Framed(Blob(C_x)))

H_yy == HexDigest(Framed(Blob(C_yy)))

\* os.stat of a file; ino may pass 32 bits; st_mtime is a whole number of
\* seconds
FileStat(mtime, ino) ==
    [mtime |-> mtime, frac |-> 0, ctime |-> Wide(1700000000),
     dev |-> Wide(2049), ino |-> ino, uid |-> Wide(1000), gid |-> Wide(1000)]

File(content, exec, st) == [content |-> content, exec |-> exec, stat |-> st]

Worktree0 ==
    (P_a :> File(C_x, FALSE, FileStat(Wide(1700000000), Wide(11))))
    @@ (P_da :> File(C_yy, TRUE, FileStat(Wide(1700000001), Wide(12))))
    @@ (P_db :> File(C_x, FALSE,
                     [FileStat(Wide(1700000001), Wide(15))
                         EXCEPT !.frac = 500000000]))
    @@ (P_ea :> File(C_x, FALSE, FileStat(Wide(1700000001), <<65536, 13>>)))
    @@ (P_dea :> File(C_yy, FALSE, FileStat(Wide(1700000001), Wide(14))))

\* the environment of a call: the working directory and the working tree
Env == [cwd |-> cwd, worktree |-> worktree]

Store == [objects |-> objects, writes |-> writes]

----------------------------------------------------------------------------
(* SpecEntry: one IndexEntry is constructed, serialized and deserialized   *)

PathPool ==
    {P_a, P_da, P_dea, Text(<<110, 233>>),
     Text(<<97, 98, 99, 100, 101, 102, 103, 104, 105>>)}

\* sizes: 0, 5, 2^24 - 1, 0x41424344, 2^32 - 1 and 2^32
SizePool ==
    {Zero, Wide(5), <<255, 65535>>, <<16706, 17220>>, <<65535, 65535>>,
     <<65536, 0>>}

EntryInit ==
    /\ objects = <<>>
    /\ writes = <<>>
    /\ worktree = Worktree0
    /\ cwd \in {"repo", "other"}
    /\ indexEntries = <<>>
    /\ indexFile = None
    /\ backupFile = None
    /\ \E path \in PathPool, mode \in {MODE_FILE, MODE_EXECUTABLE},
          size \in SizePool :
            /\ req = [path |-> path, sha1 |-> H_x, mode |-> mode,
                      size |-> size]
            /\ rec = IndexEntry(path, H_x, mode, size,
                                OsStat([cwd |-> cwd, worktree |-> Worktree0],
                                       path))
    /\ ret = None
    /\ got = None
    /\ op = [name |-> "new", wrote |-> FALSE, n |-> 0]

\* rec.serialize()
EntSerialize ==
    /\ op.n < MaxOps
    /\ got' = <<EntrySerialize(rec)>>
    /\ op' = Did("serialize", FALSE)
    /\ UNCHANGED <<objects, writes, rec, req, ret>>
    /\ UNCHANGED idxVars

\* IndexEntry.deserialize(data, 0) of the bytes serialize returned
EntDeserialize ==
    /\ op.n < MaxOps
    /\ got # None
    /\ got[1].ok
    /\ ret' = <<EntryDeserialize(got[1].b, 0, Env)>>
    /\ op' = Did("deserialize", FALSE)
    /\ UNCHANGED <<objects, writes, rec, req, got>>
    /\ UNCHANGED idxVars

EntryNext ==
    \/ EntSerialize
    \/ EntDeserialize

SpecEntry == EntryInit /\ [][EntryNext]_vars

----------------------------------------------------------------------------
(* Spec: a repository, its object store, its index and its working tree    *)

MaxSteps == 4

AddPaths == {P_a, P_da, P_db, P_ea, P_dea, P_d, P_zz}

RemovePaths == {P_a, P_da}

Returned(ok, sha) == [ok |-> ok, sha |-> sha]

Init ==
    /\ objects = <<>>
    /\ writes = <<>>
    /\ worktree = Worktree0
    /\ cwd \in {"repo", "other"}
    /\ indexEntries = <<>>
    /\ indexFile = None
    /\ backupFile = None
    /\ rec = None
    /\ req = None
    /\ ret = Returned(TRUE, <<>>)
    /\ got = None
    /\ op = [name |-> "new", wrote |-> FALSE, n |-> 0]

\* the state after an Index.add call that gave r
AddDone(r, path) ==
    /\ indexEntries' = r.entries
    /\ objects' = r.objects
    /\ writes' = r.writes
    /\ ret' = Returned(r.ok, <<>>)
    /\ req' = path
    /\ op' = Did("add", Len(r.writes) > Len(writes))
    /\ UNCHANGED <<rec, got, worktree, cwd, indexFile, backupFile>>

\* index.add(path)
Add ==
    /\ op.n < MaxSteps
    /\ \E path \in AddPaths :
          AddDone(IndexAdd(indexEntries, Store, Env, path), path)

RemoveDone(r, path) ==
    /\ indexEntries' = r.entries
    /\ ret' = Returned(r.ok, <<>>)
    /\ req' = path
    /\ op' = Did("remove", FALSE)
    /\ UNCHANGED <<objects, writes, rec, got, worktree, cwd, indexFile,
                   backupFile>>

\* index.remove(path)
Remove ==
    /\ op.n < MaxSteps
    /\ \E path \in RemovePaths :
          RemoveDone(IndexRemove(indexEntries, path), path)

\* index.clear()
Clear ==
    /\ op.n < MaxSteps
    /\ indexEntries' = IndexClear(indexEntries)
    /\ ret' = Returned(TRUE, <<>>)
    /\ req' = None
    /\ op' = Did("clear", FALSE)
    /\ UNCHANGED <<objects, writes, rec, got, worktree, cwd, indexFile,
                   backupFile>>

SaveDone(r) ==
    /\ indexFile' = IF r.ok THEN <<r.data>> ELSE indexFile
    /\ ret' = Returned(r.ok, <<>>)
    /\ req' = None
    /\ op' = Did("save", FALSE)
    /\ UNCHANGED <<objects, writes, rec, got, worktree, cwd, indexEntries,
                   backupFile>>

\* index.save()
Save ==
    /\ op.n < MaxSteps
    /\ SaveDone(IndexSave(indexEntries))

\* the except clause of _load renames a corrupt index to index.backup
LoadDone(r) ==
    /\ indexEntries' = r.entries
    /\ indexFile' = IF r.corrupt THEN None ELSE indexFile
    /\ backupFile' = IF r.corrupt THEN indexFile ELSE backupFile
    /\ ret' = Returned(~r.corrupt, <<>>)
    /\ req' = indexEntries
    /\ op' = Did("load", FALSE)
    /\ UNCHANGED <<objects, writes, rec, got, worktree, cwd>>

\* index = Index(repository): a new Index takes the place of the old one
Load ==
    /\ op.n < MaxSteps
    /\ LoadDone(IndexLoad(indexFile, Env))

WriteTreeDone(r) ==
    /\ objects' = r.objects
    /\ writes' = r.writes
    /\ ret' = Returned(TRUE, r.sha)
    /\ req' = None
    /\ op' = Did("write_tree", Len(r.writes) > Len(writes))
    /\ UNCHANGED <<rec, got, worktree, cwd, indexEntries, indexFile,
                   backupFile>>

\* index.write_tree()
WriteTree ==
    /\ op.n < MaxSteps
    /\ WriteTreeDone(IndexWriteTree(Store, indexEntries))

\* the file a of the working tree is rewritten with the other content
WorkWrite ==
    /\ op.n < MaxSteps
    /\ P_a \in DOMAIN worktree
    /\ worktree' =
          [worktree EXCEPT
              ![P_a] = File(IF @.content = C_x THEN C_yy ELSE C_x, @.exec,
                            [@.stat EXCEPT !.mtime = Wide(1700000002)])]
    /\ req' = P_a
    /\ op' = Did("write", FALSE)
    /\ UNCHANGED <<objects, writes, rec, ret, got, cwd, indexEntries,
                   indexFile, backupFile>>

StoreDone(r) ==
    /\ objects' = r.objects
    /\ writes' = r.writes
    /\ ret' = Returned(TRUE, r.sha)
    /\ req' = None
    /\ op' = Did("store", r.wrote)
    /\ UNCHANGED <<rec, got, worktree, cwd, indexEntries, indexFile,
                   backupFile>>

\* repository.store_object(Commit(tree_sha1, ...)) of the tree written last
StoreCommit ==
    /\ op.n < MaxSteps
    /\ op.name = "write_tree"
    /\ StoreDone(StoreObject(Store,
                             Commit(ret.sha, <<>>, <<MkAuthor(A_full, 0)>>,
                                    None, Text(<<109>>), 0)))

\* repository.get_object(sha1) of the hash returned last
Get ==
    /\ op.n < MaxSteps
    /\ ret.sha # <<>>
    /\ got' = <<GetObject(objects, ret.sha, 1700000001)>>
    /\ req' = ret.sha
    /\ op' = Did("get", FALSE)
    /\ UNCHANGED <<objects, writes, rec, ret, worktree, cwd, indexEntries,
                   indexFile, backupFile>>

Next ==
    \/ Add
    \/ Remove
    \/ Clear
    \/ Save
    \/ Load
    \/ WriteTree
    \/ WorkWrite
    \/ StoreCommit
    \/ Get

Spec == Init /\ [][Next]_vars

----------------------------------------------------------------------------
(* SpecLoad: index files written by another program, and Index instances   *)
(* constructed on them                                                     *)

\* the entries of an Index after add("a"), and after add("a"); add("d/a")
StagedOne ==
    IndexAdd(<<>>, [objects |-> <<>>, writes |-> <<>>],
             [cwd |-> "repo", worktree |-> Worktree0], P_a).entries

StagedTwo ==
    IndexAdd(StagedOne, [objects |-> <<>>, writes |-> <<>>],
             [cwd |-> "repo", worktree |-> Worktree0], P_da).entries

\* the files save() writes of them
SavedOne == IndexSave(StagedOne).data

SavedTwo == IndexSave(StagedTwo).data

\* the header of an index file
Header(signature, version, count) ==
    signature \o Pack32(Wide(version)) \o Pack32(Wide(count))

\* files with fewer than 12 bytes, a wrong signature or another version
MalformedPool ==
    {<<>>,
     T_DIRC,
     Slice(SavedOne, 0, 11),
     Header(Text(<<88, 88, 88, 88>>), IndexVersion, 0),
     Text(<<88, 88, 88, 88>>) \o From(SavedOne, 4),
     Header(T_DIRC, 3, 0),
     Header(T_DIRC, 1, 1) \o From(SavedOne, IndexHeaderLen)}

\* the places the saved files are cut at
CutsOne == {12, 40, 77, 78, 79}

CutsTwo == {80, 100, 143, 146, 155}

\* files with a valid header whose entry data ends early: a saved file cut
\* short, or one whose header counts an entry more than the file holds
TruncatedPool ==
    {Slice(SavedOne, 0, k) : k \in CutsOne}
    \cup {Slice(SavedTwo, 0, k) : k \in CutsTwo}
    \cup {Header(T_DIRC, IndexVersion, 1),
          Header(T_DIRC, IndexVersion, 2) \o From(SavedOne, IndexHeaderLen),
          Header(T_DIRC, IndexVersion, 3) \o From(SavedTwo, IndexHeaderLen)}

\* well-formed files
SavedPool == {Header(T_DIRC, IndexVersion, 0), SavedOne, SavedTwo}

FilePool == MalformedPool \cup TruncatedPool \cup SavedPool

\* another program writes .git/index
WriteIndexFile ==
    /\ op.n < MaxOps
    /\ \E data \in FilePool : indexFile' = <<data>>
    /\ req' = None
    /\ op' = Did("write_index", FALSE)
    /\ UNCHANGED <<objects, writes, rec, ret, got, worktree, cwd, indexEntries,
                   backupFile>>

\* another program removes .git/index
RemoveIndexFile ==
    /\ op.n < MaxOps
    /\ indexFile # None
    /\ indexFile' = None
    /\ req' = None
    /\ op' = Did("remove_index", FALSE)
    /\ UNCHANGED <<objects, writes, rec, ret, got, worktree, cwd, indexEntries,
                   backupFile>>

LoadNext ==
    \/ WriteIndexFile
    \/ RemoveIndexFile
    \/ Load

SpecLoad == Init /\ [][LoadNext]_vars

----------------------------------------------------------------------------
(* SpecStatus: files are staged, the working tree changes, and the Index   *)
(* is asked for the modified files                                         *)

\* a is rewritten with content of the same length within the granularity
\* of its timestamp, or with its times set back (os.utime): st_mtime and
\* st_size stay
WorkRewrite ==
    /\ op.n < MaxSteps
    /\ P_a \in DOMAIN worktree
    /\ worktree[P_a].content \in {C_x, C_y}
    /\ worktree' =
          [worktree EXCEPT
              ![P_a].content = IF @ = C_x THEN C_y ELSE C_x]
    /\ req' = P_a
    /\ op' = Did("rewrite", FALSE)
    /\ UNCHANGED <<objects, writes, rec, ret, got, cwd, indexEntries,
                   indexFile, backupFile>>

\* a file is written again with the bytes it has: st_mtime changes
WorkTouch ==
    /\ op.n < MaxSteps
    /\ \E path \in {P_a, P_da} :
          /\ path \in DOMAIN worktree
          /\ worktree' =
                [worktree EXCEPT ![path].stat.mtime = Wide(1700000003)]
          /\ req' = path
    /\ op' = Did("touch", FALSE)
    /\ UNCHANGED <<objects, writes, rec, ret, got, cwd, indexEntries,
                   indexFile, backupFile>>

\* a file is deleted
WorkDelete ==
    /\ op.n < MaxSteps
    /\ \E path \in {P_a, P_da} :
          /\ path \in DOMAIN worktree
          /\ worktree' = [p \in DOMAIN worktree \ {path} |-> worktree[p]]
          /\ req' = path
    /\ op' = Did("delete", FALSE)
    /\ UNCHANGED <<objects, writes, rec, ret, got, cwd, indexEntries,
                   indexFile, backupFile>>

\* the file a is deleted and a directory a with a file in it is made
WorkMkdir ==
    /\ op.n < MaxSteps
    /\ P_a \in DOMAIN worktree
    /\ worktree' =
          (P_aa :> File(C_x, FALSE, FileStat(Wide(1700000002), Wide(16))))
          @@ [p \in DOMAIN worktree \ {P_a} |-> worktree[p]]
    /\ req' = P_a
    /\ op' = Did("mkdir", FALSE)
    /\ UNCHANGED <<objects, writes, rec, ret, got, cwd, indexEntries,
                   indexFile, backupFile>>

\* index.get_modified_files()
GetModified ==
    /\ op.n < MaxSteps
    /\ got' = <<IndexGetModifiedFiles(indexEntries, worktree)>>
    /\ req' = None
    /\ op' = Did("get_modified_files", FALSE)
    /\ UNCHANGED <<objects, writes, rec, ret, cwd, worktree, indexEntries,
                   indexFile, backupFile>>

StatusNext ==
    \/ Add
    \/ WorkWrite
    \/ WorkRewrite
    \/ WorkTouch
    \/ WorkDelete
    \/ WorkMkdir
    \/ GetModified

SpecStatus == Init /\ [][StatusNext]_vars

----------------------------------------------------------------------------
(* SpecForeign: the object directory is shared with another program, which *)
(* leaves files in it that store_object did not write                      *)

\* a file that is no zlib stream
F_garbage == [deflate |-> FALSE, data |-> C_x]

\* "blob 1x": no NUL
F_nonul == Compress(T_blob \o <<SP>> \o Text(<<49>>) \o C_x)

\* "blob1\0x": no space in the header
F_nospace == Compress(T_blob \o Text(<<49>>) \o <<NUL>> \o C_x)

\* "blob x\0x": the size is no number
F_nonint == Compress(T_blob \o <<SP>> \o C_x \o <<NUL>> \o C_x)

\* "blob 2\0x": the size is not the length of the payload
F_size == Compress(T_blob \o <<SP>> \o Text(<<50>>) \o <<NUL>> \o C_x)

\* "blub 1\0x" and "blub 2\0x": a kind that is none of the four
F_kind == Compress(Frame(Text(<<98, 108, 117, 98>>), C_x))

F_kindsize ==
    Compress(Text(<<98, 108, 117, 98>>) \o <<SP>> \o Text(<<50>>) \o <<NUL>>
             \o C_x)

\* the serialization of Blob(b"x")
F_blob == Serialize(Blob(C_x))

\* the payload of a tree with the one entry "100644 a" -> H_x
OneEntryData == TreeData(<<TreeEntry(T_file, P_a, H_x)>>)

\* a tree whose payload goes on after its entry, and one whose payload ends
\* three bytes into the hash of its entry; the size is the payload's length
F_trailing == Compress(Frame(T_tree, OneEntryData \o C_x))

F_cut == Compress(Frame(T_tree, Slice(OneEntryData, 0, 12)))

ForeignPool ==
    {F_garbage, F_nonul, F_nospace, F_nonint, F_size, F_kind, F_kindsize,
     F_blob, F_trailing, F_cut}

\* 40 characters that are no hexadecimal digits, and 40 that leave the
\* object directory: "z" * 40 and "../" + "a" * 37
H_zz == [i \in 1..ShaHexLen |-> B(122)]

H_dots == Text(<<46, 46, 47>>) \o [i \in 1..37 |-> B(97)]

\* the arguments of object_path and get_object: hashes, and strings that are
\* none ("", "abc" and 41 characters)
HashPool ==
    {H_x, H_yy, H_lit, H_zz, H_dots, <<>>, Text(<<97, 98, 99>>),
     H_lit \o Text(<<97>>)}

\* the other program writes the file f where the object h belongs
ForeignWrite ==
    /\ op.n < MaxOps
    /\ \E h \in {H_x, H_lit}, f \in ForeignPool :
          /\ <<ObjectPath(h).path[1]>> \notin DOMAIN objects
          /\ objects' = (ObjectPath(h).path :> f) @@ objects
    /\ op' = Did("foreign", FALSE)
    /\ UNCHANGED <<writes, rec, req, ret, got>>
    /\ UNCHANGED idxVars

\* the other program leaves a regular file where the two-character
\* directory of the object h belongs
ForeignBlock ==
    /\ op.n < MaxOps
    /\ \E h \in {H_x, H_yy} :
          /\ \A q \in DOMAIN objects : q[1] # ObjectPath(h).path[1]
          /\ objects' = (<<ObjectPath(h).path[1]>> :> F_garbage) @@ objects
    /\ op' = Did("block", FALSE)
    /\ UNCHANGED <<writes, rec, req, ret, got>>
    /\ UNCHANGED idxVars

\* index.add(path)
ForeignAdd ==
    /\ op.n < MaxOps
    /\ \E path \in {P_a, P_da, P_d, P_zz} :
          AddDone(IndexAdd(indexEntries, Store, Env, path), path)

\* repo.object_path(sha1)
ForeignPath ==
    /\ op.n < MaxOps
    /\ \E sha1 \in HashPool :
          /\ got' = <<ObjectPath(sha1)>>
          /\ req' = sha1
    /\ op' = Did("object_path", FALSE)
    /\ UNCHANGED <<objects, writes, rec, ret>>
    /\ UNCHANGED idxVars

\* repo.get_object(sha1)
ForeignGet ==
    /\ op.n < MaxOps
    /\ \E sha1 \in HashPool :
          /\ got' = <<GetObject(objects, sha1, 1700000001)>>
          /\ req' = sha1
    /\ op' = Did("get", FALSE)
    /\ UNCHANGED <<objects, writes, rec, ret>>
    /\ UNCHANGED idxVars

ForeignNext ==
    \/ ForeignWrite
    \/ ForeignBlock
    \/ ForeignAdd
    \/ ForeignPath
    \/ ForeignGet

SpecForeign == Init /\ [][ForeignNext]_vars

----------------------------------------------------------------------------
(* SpecRace: two processes run store_object on the same record, a third    *)
(* reads it. req[p] is where writer p stands in store_object, ret[p] what  *)
(* it returned, got what the reader's last get_object gave                 *)

Writers == {1, 2}

\* the file open(mode="wb") leaves before anything is written: no bytes,
\* which zlib.decompress refuses
F_empty == [deflate |-> FALSE, data |-> <<>>]

RacePool ==
    {Blob(<<>>), Blob(C_x), Blob(C_yy), Tree(<<>>),
     Tree(<<TreeEntry(T_file, P_a, H_x)>>)}

RaceInit ==
    /\ objects = <<>>
    /\ writes = <<>>
    /\ rec \in RacePool
    /\ req = [p \in Writers |-> "start"]
    /\ ret = [p \in Writers |-> None]
    /\ got = None
    /\ op = [name |-> "new", wrote |-> FALSE, n |-> 0]
    /\ NoIndex

\* sha1 = obj.sha1(); obj_path = self.object_path(sha1);
\* if obj_path.exists(): return sha1
RaceCheck(p) ==
    /\ req[p] = "start"
    /\ IF ObjectPath(ObjSha1(rec)).path \in DOMAIN objects
       THEN /\ req' = [req EXCEPT ![p] = "returned"]
            /\ ret' = [ret EXCEPT ![p] = <<ObjSha1(rec)>>]
       ELSE /\ req' = [req EXCEPT ![p] = "checked"]
            /\ ret' = ret
    /\ op' = Did("check", FALSE)
    /\ UNCHANGED <<objects, writes, rec, got>>
    /\ UNCHANGED idxVars

\* obj_path.parent.mkdir(parents=True, exist_ok=True), and the open of
\* write_bytes, which creates the file or cuts it to no bytes
RaceOpen(p) ==
    /\ req[p] = "checked"
    /\ objects' = (ObjectPath(ObjSha1(rec)).path :> F_empty) @@ objects
    /\ req' = [req EXCEPT ![p] = "opened"]
    /\ op' = Did("open", FALSE)
    /\ UNCHANGED <<writes, rec, ret, got>>
    /\ UNCHANGED idxVars

\* the write of write_bytes, and the close
RaceWrite(p) ==
    /\ req[p] = "opened"
    /\ objects' = (ObjectPath(ObjSha1(rec)).path :> Serialize(rec)) @@ objects
    /\ writes' = Append(writes, ObjectPath(ObjSha1(rec)).path)
    /\ req' = [req EXCEPT ![p] = "written"]
    /\ op' = Did("write", TRUE)
    /\ UNCHANGED <<rec, ret, got>>
    /\ UNCHANGED idxVars

\* return sha1
RaceReturn(p) ==
    /\ req[p] = "written"
    /\ req' = [req EXCEPT ![p] = "returned"]
    /\ ret' = [ret EXCEPT ![p] = <<ObjSha1(rec)>>]
    /\ op' = Did("return", FALSE)
    /\ UNCHANGED <<objects, writes, rec, got>>
    /\ UNCHANGED idxVars

\* get_object(sha1) in the reading process, once between two steps of the
\* writers
RaceGet ==
    /\ op.name # "get"
    /\ got' = <<GetObject(objects, ObjSha1(rec), 1700000001)>>
    /\ op' = Did("get", FALSE)
    /\ UNCHANGED <<objects, writes, rec, req, ret>>
    /\ UNCHANGED idxVars

RaceNext ==
    \/ \E p \in Writers : RaceCheck(p)
    \/ \E p \in Writers : RaceOpen(p)
    \/ \E p \in Writers : RaceWrite(p)
    \/ \E p \in Writers : RaceReturn(p)
    \/ RaceGet

SpecRace == RaceInit /\ [][RaceNext]_vars

----------------------------------------------------------------------------
(* SpecSave: two Index instances on one repository, each constructed when  *)
(* there was no index file, each stages files and saves once. rec[p] holds *)
(* the entries of instance p, req[p] where p stands in save, ret[p] the    *)
(* bytes p wrote, got the instance that wrote last                         *)

Savers == {1, 2}

\* f.write(data) at offset 0 of a file that holds old
Overwrite(old, data) == data \o From(old, Len(data))

SaveInit ==
    /\ objects = <<>>
    /\ writes = <<>>
    /\ worktree = Worktree0
    /\ cwd = "repo"
    /\ indexEntries = <<>>
    /\ indexFile = None
    /\ backupFile = None
    /\ rec = [p \in Savers |-> <<>>]
    /\ req = [p \in Savers |-> "idle"]
    /\ ret = [p \in Savers |-> None]
    /\ got = None
    /\ op = [name |-> "new", wrote |-> FALSE, n |-> 0]

\* the state after an add call of instance p that gave r
InstAdded(p, r) ==
    /\ rec' = [rec EXCEPT ![p] = r.entries]
    /\ objects' = r.objects
    /\ writes' = r.writes
    /\ op' = Did("add", Len(r.writes) > Len(writes))
    /\ UNCHANGED <<req, ret, got, worktree, cwd, indexEntries, indexFile,
                   backupFile>>

\* index.add(path) in instance p, of a path it has not staged
InstAdd(p) ==
    /\ req[p] = "idle"
    /\ Len(rec[p]) < MaxLen
    /\ \E path \in {P_a, P_da} \ Paths(rec[p]) :
          InstAdded(p, IndexAdd(rec[p], Store, Env, path))

\* save in instance p up to the open of write_bytes, which creates the
\* index file or cuts it to no bytes
InstOpen(p) ==
    /\ req[p] = "idle"
    /\ IndexSave(rec[p]).ok
    /\ indexFile' = <<<<>>>>
    /\ req' = [req EXCEPT ![p] = "opened"]
    /\ op' = Did("open", FALSE)
    /\ UNCHANGED <<objects, writes, rec, ret, got, worktree, cwd,
                   indexEntries, backupFile>>

\* the write of write_bytes in instance p, the close and the return
InstWrite(p) ==
    /\ req[p] = "opened"
    /\ indexFile' = <<Overwrite(indexFile[1], IndexSave(rec[p]).data)>>
    /\ req' = [req EXCEPT ![p] = "saved"]
    /\ ret' = [ret EXCEPT ![p] = <<IndexSave(rec[p]).data>>]
    /\ got' = <<p>>
    /\ op' = Did("write", FALSE)
    /\ UNCHANGED <<objects, writes, rec, worktree, cwd, indexEntries,
                   backupFile>>

SaveNext ==
    \/ \E p \in Savers : InstAdd(p)
    \/ \E p \in Savers : InstOpen(p)
    \/ \E p \in Savers : InstWrite(p)

SpecSave == SaveInit /\ [][SaveNext]_vars

----------------------------------------------------------------------------
(* SpecPull: commits are stored with parents among the hashes known, and   *)
(* PullCommand._can_fast_forward is asked about two of them                *)

\* "if len(visited) > 1000"
SearchLimit == 1000

\* obj.get(key) of a record get_object returned: GitObject and its
\* subclasses define no get, so the call raises AttributeError
RecordGet(obj, key) == [raised |-> TRUE, value |-> None]

\* the parents one turn of the loop appends to to_check for what get_object
\* gave: nothing when get_object raised ("except Exception: pass") or
\* returned None, and nothing when obj.get raised
ParentsSeen(out) ==
    IF out.status # "object" THEN <<>>
    ELSE IF RecordGet(out.obj, "type").raised THEN <<>>
    ELSE IF RecordGet(out.obj, "type").value # T_commit THEN <<>>
    ELSE RecordGet(out.obj, "parents").value

RECURSIVE CheckLoop(_, _, _, _)
\* one turn of the loop for the hash popped, not visited before
CheckTurn(objs, local_sha, to_check, visited) ==
    IF Head(to_check) = local_sha THEN TRUE
    ELSE IF Cardinality(visited \cup {Head(to_check)}) > SearchLimit
    THEN FALSE
    ELSE CheckLoop(objs, local_sha,
                   Tail(to_check)
                       \o ParentsSeen(GetObject(objs, Head(to_check), 0)),
                   visited \cup {Head(to_check)})

\* "while to_check" of _can_fast_forward
CheckLoop(objs, local_sha, to_check, visited) ==
    IF to_check = <<>> THEN FALSE
    ELSE IF Head(to_check) \in visited
    THEN CheckLoop(objs, local_sha, Tail(to_check), visited)
    ELSE CheckTurn(objs, local_sha, to_check, visited)

\* PullCommand._can_fast_forward(repo, local_sha, remote_sha)
CanFastForward(objs, local_sha, remote_sha) ==
    CheckLoop(objs, local_sha, <<remote_sha>>, {})

\* the hashes of the objects in the store, and a hash that may be missing
KnownHashes == {q[1] \o q[2] : q \in DOMAIN objects} \cup {H_lit}

PullCommitOf(parents, message) ==
    Commit(H_empty, parents, <<MkAuthor(A_full, 0)>>, None, message, 0)

PullInit ==
    /\ objects = <<>>
    /\ writes = <<>>
    /\ rec = None
    /\ req = None
    /\ ret = None
    /\ got = None
    /\ op = [name |-> "new", wrote |-> FALSE, n |-> 0]
    /\ NoIndex

\* the state after a store_object call that gave r
PullStored(r) ==
    /\ objects' = r.objects
    /\ writes' = r.writes
    /\ ret' = <<r.sha>>
    /\ op' = Did("store", r.wrote)
    /\ UNCHANGED <<rec, req, got>>
    /\ UNCHANGED idxVars

\* repo.store_object(Commit(tree, parents, ...)) with parents known
PullCommit ==
    /\ op.n < MaxOps
    /\ \E parents \in SeqsUpTo(KnownHashes, MaxLen),
          message \in {Text(<<109>>)} :
            PullStored(StoreObject(Store, PullCommitOf(parents, message)))

\* another program writes, where the object H_lit belongs, a commit that is
\* its own parent
PullForeign ==
    /\ op.n < MaxOps
    /\ ObjectPath(H_lit).path \notin DOMAIN objects
    /\ objects' = (ObjectPath(H_lit).path :>
                      Serialize(PullCommitOf(<<H_lit>>, Text(<<109>>))))
                  @@ objects
    /\ op' = Did("foreign", FALSE)
    /\ UNCHANGED <<writes, rec, req, ret, got>>
    /\ UNCHANGED idxVars

\* self._can_fast_forward(repo, local_sha, remote_sha)
PullCheck ==
    /\ op.n < MaxOps
    /\ \E local_sha \in KnownHashes, remote_sha \in KnownHashes :
          /\ req' = [local_sha |-> local_sha, remote_sha |-> remote_sha]
          /\ got' = <<CanFastForward(objects, local_sha, remote_sha)>>
    /\ op' = Did("can_fast_forward", FALSE)
    /\ UNCHANGED <<objects, writes, rec, ret>>
    /\ UNCHANGED idxVars

PullNext ==
    \/ PullCommit
    \/ PullForeign
    \/ PullCheck

SpecPull == PullInit /\ [][PullNext]_vars

----------------------------------------------------------------------------
(* Properties of the object store                                          *)

\* the last operation read back the object the last store_object returned
ReadBack == op.name = "get" /\ ret # None /\ got[1].sha = ret[1].sha

EntrySet(entries) == {entries[i] : i \in DOMAIN entries}

\* C6: get_object(store_object(r)) of a Blob or a Tree r returns an object of
\* the same kind with the same content bytes, or the same set of (mode, name,
\* hash) entries, and so with the hash store_object returned.
BlobTreeRoundTrip ==
    (ReadBack /\ ret[1].obj.type \in {T_blob, T_tree}) =>
        /\ got[1].status = "object"
        /\ got[1].obj.type = ret[1].obj.type
        /\ ret[1].obj.type = T_blob =>
              got[1].obj.content = ret[1].obj.content
        /\ ret[1].obj.type = T_tree =>
              EntrySet(got[1].obj.entries) = EntrySet(ret[1].obj.entries)
        /\ ObjSha1(got[1].obj) = ret[1].sha

\* a tree of two entries inserted out of name order, one name holding a space
\* and a character beyond ASCII, was stored and read back
BlobTreeRoundTripWitness ==
    /\ ReadBack
    /\ ret[1].obj.type = T_tree
    /\ Len(ret[1].obj.entries) = 2
    /\ TextLess(ret[1].obj.entries[2].name, ret[1].obj.entries[1].name)
    /\ \E i \in 1..2 : SP \in EntrySet(ret[1].obj.entries[i].name)
    /\ got[1].status = "object"

\* the identity a has the fields the Author was made with
IdentityAsMade(args, a) ==
    /\ a.name = args[1]
    /\ a.email = args[2]
    /\ a.timestamp = args[3][1]
    /\ a.timezone = args[4]

\* C7: get_object(store_object(r)) of a Commit or a Tag r made of identities
\* with any timestamp >= 0 returns the same tree or object hash, parents,
\* label and message, and identities with the name, email, timestamp and
\* offset they were made with.
CommitTagRoundTrip ==
    (ReadBack /\ ret[1].obj.type \in {T_commit, T_tag}) =>
        /\ got[1].status = "object"
        /\ got[1].obj.type = ret[1].obj.type
        /\ got[1].obj.message = req.message
        /\ ret[1].obj.type = T_commit =>
              /\ got[1].obj.tree_sha1 = req.tree_sha1
              /\ got[1].obj.parents = ret[1].obj.parents
              /\ IdentityAsMade(req.author, got[1].obj.author)
              /\ IdentityAsMade(IF req.committer = None THEN req.author
                                ELSE req.committer[1],
                                got[1].obj.committer)
        /\ ret[1].obj.type = T_tag =>
              /\ got[1].obj.object_sha1 = req.object_sha1
              /\ got[1].obj.object_type = req.object_type
              /\ got[1].obj.tag_name = req.tag_name
              /\ IdentityAsMade(req.tagger, got[1].obj.tagger)

\* C8: a store_object call that follows a store_object call of the same
\* record, or of a record with the same fields, returns the same hash and
\* writes nothing: every object file is as it was.
StoreIdempotent ==
    [][(op.name = "store" /\ op'.name = "store") =>
          /\ ret'[1].sha = ret[1].sha
          /\ ~op'.wrote
          /\ writes' = writes
          /\ objects' = objects]_vars

\* store_object was called again on a stored record and did not write
StoreIdempotentWitness ==
    /\ op.name = "store"
    /\ ~op.wrote
    /\ Len(writes) = 1
    /\ op.n >= 2

\* the file f holds "<kind> <len>NUL" + payload cut at the NUL at null_pos
WellFramed(data, null_pos) ==
    /\ null_pos # -1
    /\ \E kind \in {T_blob, T_tree, T_commit, T_tag} :
          Slice(data, 0, null_pos)
              = Encode(kind \o <<SP>> \o Dec(Len(data) - null_pos - 1))

\* C9: every object file of the store inflates to "<kind> <len>NUL" + payload
\* and is named by the hash of exactly those bytes, also when the record was
\* changed by add_entry or add_parent between sha1() and store_object calls.
StoreIntegrity ==
    \A path \in DOMAIN objects :
        /\ objects[path].deflate
        /\ path[1] \o path[2] = HexDigest(objects[path].data)
        /\ Len(path[1]) = 2
        /\ WellFramed(objects[path].data,
                      FindFrom(objects[path].data, NUL, 0))

\* a record was hashed, then changed, then stored; or stored twice with a
\* change between: the last write is the changed record's
StoreIntegrityWitness ==
    /\ op.name = "store"
    /\ op.wrote
    /\ op.n = 3
    /\ \/ rec.type = T_tree /\ Len(rec.entries) > Len(req.entries)
       \/ rec.type = T_commit /\ Len(rec.parents) > Len(req.parents)

----------------------------------------------------------------------------
(* Properties of the staging area                                          *)

\* the staged map: path -> (mode, hash), as <<path, mode, hash>> triples
StagedFiles ==
    {<<indexEntries[i].path, Oct06(indexEntries[i].mode),
       indexEntries[i].sha1>> : i \in DOMAIN indexEntries}

\* every staged path is a relative path d1/.../dk/f of non-empty names
PlainPaths ==
    \A i \in DOMAIN indexEntries :
        /\ indexEntries[i].path # <<>>
        /\ \A x \in EntrySet(SplitOn(indexEntries[i].path, SLASH)) :
              x # <<>> /\ x # <<B(46)>>

RECURSIVE TreeFiles(_, _, _)
\* the file entries reached from the tree sha1 by following its directory
\* entries, as <<path, mode, hash>> triples
TreeFiles(objs, sha1, prefix) ==
    LET t == GetObject(objs, sha1, 0)
    IN  IF t.status # "object" THEN {<<prefix, "unreadable", sha1>>}
        ELSE IF t.obj.type # T_tree THEN {<<prefix, "not a tree", sha1>>}
        ELSE UNION {IF e.mode = T_dirmode
                    THEN TreeFiles(objs, e.sha1, prefix \o e.name \o <<SLASH>>)
                    ELSE {<<prefix \o e.name, e.mode, e.sha1>>} :
                        e \in EntrySet(t.obj.entries)}

\* C1: for staged paths of any depth, the trees write_tree stored hold, under
\* the directory entries d1, ..., dk from the root, a file entry f with the
\* staged mode and hash for each staged path d1/.../dk/f, and nothing else.
WriteTreeReconstructs ==
    (op.name = "write_tree" /\ PlainPaths) =>
        TreeFiles(objects, ret.sha, <<>>) = StagedFiles

\* the staged entries that are root-level files
RootLevel == {i \in DOMAIN indexEntries : Len(PathParts(indexEntries[i].path)) = 1}

\* the directories of the staged entries one directory deep
ShallowDirs ==
    {DirPath(PathParts(indexEntries[i].path)) : i \in DOMAIN indexEntries \ RootLevel}

Under(d) ==
    {i \in DOMAIN indexEntries \ RootLevel :
        DirPath(PathParts(indexEntries[i].path)) = d}

AllShallow ==
    /\ PlainPaths
    /\ \A i \in DOMAIN indexEntries : Len(PathParts(indexEntries[i].path)) <= 2

\* the tree sha1 of the store holds exactly the n entries of the set want
HoldsExactly(sha1, want, n) ==
    LET t == GetObject(objects, sha1, 0)
    IN  /\ t.status = "object"
        /\ t.obj.type = T_tree
        /\ EntrySet(t.obj.entries) = want
        /\ Len(t.obj.entries) = n

\* C2: when every staged path is a root-level file or a file one directory
\* deep, the root tree write_tree returns holds exactly one file entry per
\* root-level path and one 040000 entry per directory, and each directory's
\* tree read back holds exactly the file entries staged under it.
WriteTreeShallow ==
    (op.name = "write_tree" /\ AllShallow) =>
        \E sub \in [ShallowDirs -> {objects[q].data : q \in DOMAIN objects}] :
            /\ HoldsExactly(ret.sha,
                   {FileEntry(indexEntries[i], indexEntries[i].path) :
                       i \in RootLevel}
                   \cup {TreeEntry(T_dirmode, d, HexDigest(sub[d])) :
                           d \in ShallowDirs},
                   Cardinality(RootLevel) + Cardinality(ShallowDirs))
            /\ \A d \in ShallowDirs :
                  HoldsExactly(HexDigest(sub[d]),
                      {FileEntry(indexEntries[i],
                                 PathParts(indexEntries[i].path)[2]) :
                          i \in Under(d)},
                      Cardinality(Under(d)))

\* write_tree ran on a root-level file and two files of one directory
WriteTreeShallowWitness ==
    /\ op.name = "write_tree"
    /\ AllShallow
    /\ RootLevel # {}
    /\ \E d \in ShallowDirs : Cardinality(Under(d)) = 2

\* C3: IndexEntry.deserialize(e.serialize(), 0) returns an entry with the
\* path, hash, mode, size, flags and metadata fields of e.
EntryRoundTrip ==
    op.name = "deserialize" => (ret[1].ok /\ ret[1].entry = rec)

PathsAndHashes(es) == [i \in DOMAIN es |-> <<es[i].path, es[i].sha1>>]

\* C4: a new Index constructed right after save() of one or more entries
\* holds the same paths with the same hashes, in the order of the file, and
\* no corruption recovery took place.
SaveLoadRoundTrip ==
    [][(op.name = "save" /\ ret.ok /\ indexEntries # <<>>
            /\ op'.name = "load") =>
          /\ ret'.ok
          /\ backupFile' = backupFile
          /\ PathsAndHashes(indexEntries')
                = PathsAndHashes(SortedByPath(indexEntries))]_vars

\* C5: the bytes serialize() returns are 62 + len(path bytes) + 1 + padding
\* long, a multiple of 8, and deserialize returns that length as next_offset.
EntryLength ==
    (got # None /\ got[1].ok) =>
        /\ Len(got[1].b) % 8 = 0
        /\ Len(got[1].b) - (62 + Len(Encode(rec.path)) + 1) \in 0..7
        /\ op.name = "deserialize" =>
              (ret[1].ok /\ ret[1].next_offset = Len(got[1].b))

\* C10: no step of store_object, get_object, add, write_tree, save, remove,
\* clear or of a new Index deletes an object file or changes its bytes.
AppendOnly ==
    [][\A q \in DOMAIN objects :
          q \in DOMAIN objects' /\ objects'[q] = objects[q]]_vars

\* objects were stored, and then the staging area was cleared or an entry
\* removed, or another object stored
AppendOnlyWitness ==
    /\ Len(writes) >= 2
    /\ op.name \in {"clear", "remove", "store", "write_tree"}
    /\ op.n >= 3

----------------------------------------------------------------------------
(* Properties of Index._load                                               *)

\* fewer than 12 bytes, a wrong signature, or a version other than 2
Malformed(data) ==
    \/ Len(data) < 12
    \/ Slice(data, 0, 4) # Text(<<68, 73, 82, 67>>)
    \/ Unpack32(data, 4) # <<0, 2>>

\* the Index constructed is empty, and the index file was renamed to the
\* backup
Recovered ==
    /\ indexEntries' = <<>>
    /\ indexFile' = None
    /\ backupFile' = indexFile

TruncatedRecovered ==
    [][(op'.name = "load" /\ op'.n = op.n + 1 /\ indexFile # None
            /\ indexFile[1] \in TruncatedPool) => Recovered]_vars

----------------------------------------------------------------------------
(* Properties of Index.add, remove, clear and save                         *)

\* the entries of es for paths other than path, in their order
Others(es, path) == SelectSeq(es, LAMBDA e : e.path # path)

\* C13: add(path) of a path that is no regular file of the working tree (it
\* does not exist, or is a directory) returns False and leaves the staging
\* set as it was.
AddRefused ==
    [][(op'.name = "add" /\ op'.n = op.n + 1 /\ req' \notin DOMAIN worktree)
          => (~ret'.ok /\ indexEntries' = indexEntries)]_vars

\* add of a directory was refused by an Index that holds entries
AddRefusedWitness ==
    /\ op.name = "add"
    /\ req = P_d
    /\ ~ret.ok
    /\ Len(indexEntries) >= 2

\* the one entry of es for path
EntryOf(es, path) == es[CHOOSE i \in DOMAIN es : es[i].path = path]

\* the blob of the bytes content is in the store under its hash
BlobStored(objs, content) ==
    /\ GetObject(objs, HexDigest(Framed(Blob(content))), 0).status = "object"
    /\ GetObject(objs, HexDigest(Framed(Blob(content))), 0).obj
          = Blob(content)

\* C14: after add(path) returned True, the staging set holds one entry for
\* path, with the hash of the blob of the file's bytes and their count as
\* its size, every field as a first add of the path sets it; the blob is in
\* the object store; the entries of the other paths are as they were.
AddStages ==
    [][(op'.name = "add" /\ op'.n = op.n + 1 /\ ret'.ok) =>
          /\ req' \in DOMAIN worktree
          /\ Cardinality({i \in DOMAIN indexEntries' :
                             indexEntries'[i].path = req'}) = 1
          /\ EntryOf(indexEntries', req').sha1
                = HexDigest(Framed(Blob(worktree[req'].content)))
          /\ EntryOf(indexEntries', req').size
                = <<0, Len(worktree[req'].content)>>
          /\ <<EntryOf(indexEntries', req')>>
                = IndexAdd(<<>>, Store, Env, req').entries
          /\ BlobStored(objects', worktree[req'].content)
          /\ Others(indexEntries', req') = Others(indexEntries, req')]_vars

\* a path staged before, next to another path, was staged again after its
\* file was rewritten
AddStagesWitness ==
    /\ op.name = "add"
    /\ op.n >= 4
    /\ ret.ok
    /\ req = P_a
    /\ Len(indexEntries) = 2
    /\ EntryOf(indexEntries, P_a).sha1 = H_yy

\* C15: over add, remove and clear the tracked paths are a set kept as the
\* calls say: a successful add puts its path in, a failed add changes
\* nothing, remove takes its path out and returns whether it was in, leaving
\* the other entries as they were, clear empties it; len(index) is the
\* number of tracked paths.
TrackedPaths ==
    [][op'.n = op.n + 1 =>
          /\ op'.name \in {"add", "remove", "clear"} =>
                Len(indexEntries') = Cardinality(Paths(indexEntries'))
          /\ op'.name = "add" =>
                Paths(indexEntries')
                  = IF ret'.ok THEN Paths(indexEntries) \cup {req'}
                    ELSE Paths(indexEntries)
          /\ op'.name = "remove" =>
                /\ ret'.ok = (req' \in Paths(indexEntries))
                /\ Paths(indexEntries') = Paths(indexEntries) \ {req'}
                /\ indexEntries' = Others(indexEntries, req')
          /\ op'.name = "clear" => Paths(indexEntries') = {}]_vars

\* a tracked path was removed from an Index that tracks another path too
TrackedPathsWitness ==
    /\ op.name = "remove"
    /\ ret.ok
    /\ req = P_a
    /\ indexEntries # <<>>
    /\ P_a \notin Paths(indexEntries)

\* the entries es in ascending order of their paths, which differ
Ascending(es) ==
    [k \in DOMAIN es |->
        es[CHOOSE i \in DOMAIN es :
              Cardinality({j \in DOMAIN es :
                             TextLess(es[j].path, es[i].path)}) = k - 1]]

\* the entries es in another order
Reordered(es, perm) == [k \in DOMAIN es |-> es[perm[k]]]

\* C16: save() leaves as the index file the signature DIRC, the version 2,
\* the number of staged entries and every entry serialized, in ascending
\* order of the paths; an Index holding the entries in any other insertion
\* order writes the same bytes.
SaveSorted ==
    [][(op'.name = "save" /\ op'.n = op.n + 1) =>
          /\ ret'.ok
          /\ indexFile'
                = <<Text(<<68, 73, 82, 67>>) \o Pack32(<<0, 2>>)
                      \o Pack32(<<0, Len(indexEntries)>>)
                      \o Flat([k \in DOMAIN indexEntries |->
                                 EntrySerialize(Ascending(indexEntries)[k]).b])>>
          /\ \A perm \in Permutations(DOMAIN indexEntries) :
                IndexSave(Reordered(indexEntries, perm)).data = indexFile'[1]]_vars

\* save() wrote entries that were added out of path order
SaveSortedWitness ==
    /\ op.name = "save"
    /\ Len(indexEntries) >= 2
    /\ TextLess(indexEntries[2].path, indexEntries[1].path)
    /\ indexFile = <<IndexSave(indexEntries).data>>

\* C17: write_tree returns the same root hash for the staged entries held
\* in any insertion order, by this Index or another, on every call.
WriteTreeDeterministic ==
    op.name = "write_tree" =>
        \A perm \in Permutations(DOMAIN indexEntries) :
            IndexWriteTree(Store, Reordered(indexEntries, perm)).sha = ret.sha

\* C18: the payload and the hash of a Tree are those of a Tree of the same
\* entries added in any other order, also where two entries share a name.
TreeOrderFree ==
    rec.type = T_tree =>
        \A perm \in Permutations(DOMAIN rec.entries) :
            /\ TreeData(Reordered(rec.entries, perm)) = TreeData(rec.entries)
            /\ ObjSha1(Tree(Reordered(rec.entries, perm)))
                  = ObjSha1(Tree(rec.entries))

----------------------------------------------------------------------------
(* Properties of Index.get_modified_files                                  *)

\* the status the map returned last has for path, or "" where it has none
StatusOf(path) ==
    IF \E i \in DOMAIN got[1] : got[1][i][1] = path
    THEN got[1][CHOOSE i \in DOMAIN got[1] : got[1][i][1] = path][2]
    ELSE ""

\* the content of the file at path is not the content staged for it
ContentDiffers(path) ==
    HexDigest(Framed(Blob(worktree[path].content)))
        # EntryOf(indexEntries, path).sha1

\* C19: the keys of the map get_modified_files returns are staged paths; a
\* staged path is "deleted" exactly when the working tree has no file at
\* it; a path is "modified" only when the working tree has a file at it
\* whose content hash is not the staged hash.
ModifiedSound ==
    op.name = "get_modified_files" =>
        /\ \A i \in DOMAIN got[1] : got[1][i][1] \in Paths(indexEntries)
        /\ \A path \in Paths(indexEntries) :
              /\ StatusOf(path) = "deleted" <=> path \notin DOMAIN worktree
              /\ StatusOf(path) = "modified" =>
                    (path \in DOMAIN worktree /\ ContentDiffers(path))

\* C20: every staged path whose file is in the working tree with content
\* other than the content staged is "modified" in the map
\* get_modified_files returns, whatever the size and times of the file.
ModifiedComplete ==
    op.name = "get_modified_files" =>
        \A path \in Paths(indexEntries) :
            (path \in DOMAIN worktree /\ ContentDiffers(path))
                => StatusOf(path) = "modified"


----------------------------------------------------------------------------
(* Properties of a shared object directory (SpecForeign)                   *)

\* the file get_object(sha1) reads, None when there is none
FileOf(sha1) ==
    IF ~ObjectPath(sha1).ok \/ ObjectPath(sha1).path \notin DOMAIN objects
    THEN None
    ELSE <<objects[ObjectPath(sha1).path]>>

\* the outcome the checks of get_object give for the file f, in their order
Expected(f) ==
    IF f = None THEN "none"
    ELSE IF f[1] = F_garbage THEN "decompress"
    ELSE IF f[1] = F_nonul THEN "invalid object format"
    ELSE IF f[1] = F_nospace THEN "invalid object header"
    ELSE IF f[1] = F_nonint THEN "invalid object size"
    ELSE IF f[1] \in {F_size, F_kindsize} THEN "object size mismatch"
    ELSE IF f[1] = F_kind THEN "unknown object type"
    ELSE "object"

\* get_object of a well-formed hash gives None where there is no file, and
\* for a file the error of the first check the file fails; a load leaves the
\* store as it was
ReadOrder ==
    [][(op'.name = "get" /\ op'.n = op.n + 1 /\ ObjectPath(req').ok) =>
          /\ objects' = objects
          /\ writes' = writes
          /\ Expected(FileOf(req')) =
                IF got'[1].status = "error" THEN got'[1].why
                ELSE got'[1].status]_vars

\* C21: get_object never yields a record from a corrupt object: when it
\* returns a record, the file it read is the serialization of that record
LoadedIsStored ==
    (op.name = "get" /\ got[1].status = "object") =>
        FileOf(req) = <<Serialize(got[1].obj)>>

IsHash(s) == Len(s) = ShaHexLen /\ \A i \in DOMAIN s : IsHexDigit(s[i])

\* C22: object_path succeeds only for a string of 40 hexadecimal digits
PathOnlyOfHash ==
    (op.name = "object_path" /\ got[1].ok) => IsHash(req)

\* the path given to add is a regular file of the working tree
AddedIsFile == IsFile(worktree, req)

\* C24: add returns False only for a missing path or a path that is no
\* regular file: it does not turn a failure of the object store into False
AddFalseOnlyForNoFile ==
    (op.name = "add" /\ ~ret.ok) => ~AddedIsFile


----------------------------------------------------------------------------
(* Properties of one staging entry, continued (SpecEntry)                  *)

\* C23: serialize never fails because a numeric field of the entry is above
\* 2^32 - 1: it returns the bytes of the entry
SerializeNeverFails ==
    op.name = "serialize" => got[1].ok


----------------------------------------------------------------------------
(* Properties of concurrent store_object calls (SpecRace)                  *)

\* C25: two store_object calls on one record need no lock: both return the
\* hash of the record, the object file holds the serialization of the record
\* when both have returned, and once one has returned, get_object on the
\* hash returns the record
RaceSafe ==
    /\ \A p \in Writers : ret[p] \in {None, <<ObjSha1(rec)>>}
    /\ (\A p \in Writers : req[p] = "returned") =>
          objects[ObjectPath(ObjSha1(rec)).path] = Serialize(rec)
    /\ (op.name = "get" /\ \E p \in Writers : req[p] = "returned") =>
          (got[1].status = "object" /\ got[1].obj = rec)


----------------------------------------------------------------------------
(* Properties of the trees write_tree stores (Spec)                        *)

\* the object files that hold trees, and the tree one holds
TreePaths ==
    {q \in DOMAIN objects :
        /\ GetObject(objects, q[1] \o q[2], 0).status = "object"
        /\ GetObject(objects, q[1] \o q[2], 0).obj.type = T_tree}

TreeAt(q) == GetObject(objects, q[1] \o q[2], 0).obj

DirEntries(t) == {e \in EntrySet(t.entries) : e.mode = T_dirmode}

\* the place of the write of the object file q among all writes
WrittenAt(q) == CHOOSE i \in DOMAIN writes : writes[i] = q

\* C26: when write_tree returns h, the tree h is in the store, and every
\* directory entry of every tree in the store (the trees reachable from h
\* among them) names a tree that is in the store and was written before the
\* tree that holds the entry
SubtreesFirst ==
    op.name = "write_tree" =>
        /\ ObjectPath(ret.sha).path \in TreePaths
        /\ \A q \in TreePaths : \A e \in DirEntries(TreeAt(q)) :
              /\ ObjectPath(e.sha1).path \in TreePaths
              /\ WrittenAt(ObjectPath(e.sha1).path) < WrittenAt(q)

\* write_tree wrote a root tree with a file and two directories
SubtreesFirstWitness ==
    /\ op.name = "write_tree"
    /\ op.wrote
    /\ ObjectPath(ret.sha).path \in TreePaths
    /\ Cardinality(DirEntries(TreeAt(ObjectPath(ret.sha).path))) = 2
    /\ Len(TreeAt(ObjectPath(ret.sha).path).entries) = 3

\* C30: every tree write_tree wrote has pairwise different entry names
DistinctNames ==
    (op.name = "write_tree" /\ PlainPaths) =>
        \A q \in TreePaths : \A i, j \in DOMAIN TreeAt(q).entries :
            i # j => TreeAt(q).entries[i].name # TreeAt(q).entries[j].name


----------------------------------------------------------------------------
(* Properties of the cached hash (SpecObj)                                 *)

\* C28: after every sha1(), add_entry, add_parent and store_object call,
\* sha1() of the record is the hash of the record's data as it is then, and
\* add_entry and add_parent change that hash
CacheFresh ==
    [][op'.n = op.n + 1 =>
          /\ ObjSha1(rec') = HexDigest(Framed(rec'))
          /\ op'.name \in {"add_entry", "add_parent"} =>
                ObjSha1(rec') # ObjSha1(rec)]_vars

\* a record was hashed in store_object, then given an entry or a parent, then
\* hashed again
CacheFreshWitness ==
    /\ op.name = "sha1"
    /\ rec.cache # None
    /\ ret # None
    /\ \/ rec.type = T_tree /\ Len(rec.entries) > Len(ret[1].obj.entries)
       \/ rec.type = T_commit /\ Len(rec.parents) > Len(ret[1].obj.parents)


----------------------------------------------------------------------------
(* Properties of concurrent save calls (SpecSave)                          *)

\* C27: when both instances have saved, the index file holds exactly what
\* the save that wrote last wrote: the complete staging set of that
\* instance and nothing of the other's
LastWriteWins ==
    (\A p \in Savers : req[p] = "saved") => indexFile = ret[got[1]]

----------------------------------------------------------------------------
(* Properties of the fast-forward test (SpecPull)                          *)

\* the parents of the commit stored under sha; none where there is no commit
ParentsOf(objs, sha) ==
    IF GetObject(objs, sha, 0).status # "object" THEN {}
    ELSE IF GetObject(objs, sha, 0).obj.type # T_commit THEN {}
    ELSE EntrySet(GetObject(objs, sha, 0).obj.parents)

RECURSIVE Reach(_, _, _)
\* the hashes reached from frontier through parent links, with those seen
Reach(objs, frontier, seen) ==
    IF frontier \subseteq seen THEN seen
    ELSE Reach(objs,
               UNION {ParentsOf(objs, h) : h \in frontier \ seen},
               seen \cup frontier)

\* C29: _can_fast_forward returns True exactly when local_sha is remote_sha
\* or is reached from remote_sha through the parent links of the commits
\* stored (far fewer than the search limit of 1000 here)
FastForwardExact ==
    op.name = "can_fast_forward" =>
        (got[1] <=> req.local_sha \in Reach(objects, {req.remote_sha}, {}))

====
